---- MODULE Spec2Model ----
(***************************************************************************)
(* Lock-free admission strategies of shot-limit: FixedWindow,              *)
(* SlidingWindow, TokenBucket and Gcra.  Every atomic load, store and      *)
(* compare-exchange of process() is one step of the calling thread, so     *)
(* sequential use is the one-thread case of the same actions.              *)
(***************************************************************************)
EXTENDS Integers, Sequences, FiniteSets, TLC

\* ------------------------------------------------------------------ bounds
MaxTime == 6        \* largest clock reading (ns since the anchor) of a sequential caller
MaxParTime == 2     \* largest clock reading of concurrent callers
MaxCapacity == 2    \* largest capacity / limit handed to a constructor
MaxPeriod == 3      \* largest interval / period handed to a constructor
NumThreads == 2     \* threads sharing one strategy
MaxCalls == 5       \* process() calls of the single sequential caller
MaxBurstCapacity == 22  \* largest capacity of a strategy driven burst after burst
MaxBurstPeriod == 22    \* largest period of a strategy driven burst after burst
MaxDrainPeriod == 29    \* largest period of a bucket drained again and again
MaxSleeps == 2          \* sleeps of the caller that drains a bucket
MaxSvcTime == 3         \* largest clock reading of the tasks that drive the middleware
MaxDeadline == 2        \* largest timeout a middleware is configured with
MaxRequests == 2        \* requests the tasks send through their services
MaxSecs == 2            \* whole seconds of the largest retry_after in an error
MaxRatePeriod == 5      \* largest period of a Gcra compared with its token bucket

Threads == 1..NumThreads
Strategies == {"FixedWindow", "SlidingWindow", "TokenBucket", "Gcra"}

VARIABLES
    clock,      \* the latest reading of the clock: nanoseconds since the anchor
    strategy,   \* which Strategy implementation the threads share
    args,       \* the arguments its constructor was called with
    profile,    \* "seq": one caller, call after call; "par": one call per thread;
                \* "burst": one caller, calls until rejected, sleeps, again;
                \* "drain": the same with up to MaxSleeps sleeps of any length
                \* "lag": one call per thread, the readings far apart
    callsLeft,  \* per thread: process() calls it may still start
    pc,         \* per thread: position inside process()
    now,        \* per thread: the local `now` of its current call
    local,      \* per thread: the other locals of its current call
    log,        \* history of returned calls: now, outcome, retry_after
    fw,         \* struct FixedWindow
    sw,         \* struct SlidingWindow
    tb,         \* struct TokenBucket
    gcra,       \* struct Gcra
    cfg,        \* the middleware stack built: layers, fail_fast, timeout
    svc,        \* per task: its RateLimitService (and LoadShed) instance
    task,       \* per task: where its current request stands
    handled,    \* calls the downstream handler has received (MockService.count)
    admitted,   \* Admit results the strategy has handed to a middleware
    out,        \* per task: how its latest finished request ended
    boundary    \* an error on its way out of a managed stack to the caller

tower == <<cfg, svc, task, handled, admitted, out, boundary>>
vars == <<clock, strategy, args, profile, callsLeft, pc, now, local, log, fw, sw, tb, gcra,
          tower>>
setup == <<clock, strategy, args, profile, callsLeft, tower>>
structs == <<fw, sw, tb, gcra>>

Max(a, b) == IF a >= b THEN a ELSE b
Min(a, b) == IF a <= b THEN a ELSE b

\* -------------------------------------------------- the calling convention
\* ControlFlow::Continue(()) is "Admit", ControlFlow::Break(Overloaded{..}) is
\* "Reject"; a panicking call (arithmetic overflow check) is "Panic".
LocalsOf(s) ==
    CASE s = "FixedWindow" -> [expires |-> 0, next_expires |-> 0, val |-> 0]
      [] s = "SlidingWindow" -> [window_start |-> 0, new_window_start |-> 0,
                                 prev_val |-> 0, prev_count |-> 0]
      [] s = "TokenBucket" -> [last_update |-> 0, new_units |-> <<0, 0>>]
      [] s = "Gcra" -> [tat |-> 0, next_tat |-> 0]

\* The call returns: its outcome is appended to the history and its stack
\* frame (now and the other locals) is gone.
Return(t, res, retry) ==
    /\ pc' = [pc EXCEPT ![t] = "idle"]
    /\ log' = Append(log, [now |-> now[t], res |-> res, retry_after |-> retry])
    /\ now' = [now EXCEPT ![t] = 0]
    /\ local' = [local EXCEPT ![t] = LocalsOf(strategy)]

\* The call goes on at `label` with its locals updated to `frame`.
Goto(t, label, frame) ==
    /\ pc' = [pc EXCEPT ![t] = label]
    /\ local' = [local EXCEPT ![t] = frame]
    /\ UNCHANGED <<now, log>>

FirstStep(s) ==
    CASE s = "FixedWindow" -> "fw_load_expires"
      [] s = "SlidingWindow" -> "sw_load_window_start"
      [] s = "TokenBucket" -> "tb_load_last_update"
      [] s = "Gcra" -> "gc_load_tat"

\* let now = self.clock.now().duration_since(self.anchor).as_nanos() as u64;
\* The clock is monotonic and is observed only by being read: since the last
\* reading it has advanced by any amount, possibly none.
\* A "burst" caller loops `while process().is_continue()` with the clock
\* standing still, sleeps once into the window that follows the first, and
\* runs the same loop again.
Readings ==
    CASE profile = "seq" -> clock..MaxTime
      [] profile = "par" -> clock..MaxParTime
      [] profile = "lag" -> clock..MaxTime
      [] profile = "burst" ->
           IF log = << >> \/ log[Len(log)].res = "Admit" THEN {clock}
           ELSE IF clock < args.period THEN args.period..(2 * args.period - 1)
           ELSE {}
      [] profile = "drain" ->
           IF log = << >> \/ log[Len(log)].res = "Admit" THEN {clock}
           ELSE IF Cardinality({i \in 1..Len(log) : log[i].res = "Reject"}) <= MaxSleeps
             THEN (clock + 1)..(2 * args.period - 1)
           ELSE {}

ReadClock(t) ==
    /\ pc[t] = "idle"
    /\ callsLeft[t] > 0
    /\ callsLeft' = [callsLeft EXCEPT ![t] = @ - 1]
    /\ \E reading \in Readings :
         /\ clock' = reading
         /\ now' = [now EXCEPT ![t] = reading]
    /\ pc' = [pc EXCEPT ![t] = FirstStep(strategy)]
    /\ UNCHANGED <<strategy, args, profile, local, log, structs, tower>>

\* ------------------------------------------------------------ FixedWindow
FixedWindow_new(capacity, interval) ==
    [capacity |-> capacity, remaining |-> capacity,
     interval |-> interval, expires |-> interval]

\* if now > expires
FW_Expired(now_, expires_) == now_ > expires_

\* (mutant) the rolling boundary: the old boundary plus one interval
FW_NextExpires_Rolling(now_, expires_, interval_) == expires_ + interval_

\* (mutant) the boundary at the start of the window containing now
FW_NextExpires_Floor(now_, expires_, interval_) == (now_ \div interval_) * interval_

\* let window_count = now / self.interval; (window_count + 1) * self.interval
FW_NextExpires(now_, expires_, interval_) == ((now_ \div interval_) + 1) * interval_

\* |val| if val > 0 { Some(val - 1) } else { None }
FW_Take(val) == IF val > 0 THEN val - 1 ELSE -1

\* let mut expires = self.expires.load(Acquire); if now > expires { ... }
FW_LoadExpires(t) ==
    /\ pc[t] = "fw_load_expires"
    /\ Goto(t, IF FW_Expired(now[t], fw.expires) THEN "fw_cas_expires" ELSE "fw_fetch_load",
             [local[t] EXCEPT !.expires = fw.expires])
    /\ UNCHANGED <<setup, structs>>

\* (mutant) next_expires stored without comparing with the expires loaded
FW_CasExpires_Blind(t) ==
    /\ pc[t] = "fw_cas_expires"
    /\ LET next_expires == FW_NextExpires(now[t], local[t].expires, fw.interval)
       IN /\ fw' = [fw EXCEPT !.expires = next_expires]
          /\ Goto(t, "fw_store_remaining", [local[t] EXCEPT !.next_expires = next_expires])
    /\ UNCHANGED <<setup, sw, tb, gcra>>

\* let window_count = now / self.interval; (a zero interval: the division
\* panics) then self.expires.compare_exchange(expires, next_expires, SeqCst, Relaxed)
FW_CasExpires(t) ==
    /\ pc[t] = "fw_cas_expires"
    /\ IF fw.interval = 0
         THEN Return(t, "Panic", 0) /\ UNCHANGED fw
         ELSE LET next_expires == FW_NextExpires(now[t], local[t].expires, fw.interval)
              IN IF fw.expires = local[t].expires
                   THEN /\ fw' = [fw EXCEPT !.expires = next_expires]
                        /\ Goto(t, "fw_store_remaining",
                                [local[t] EXCEPT !.next_expires = next_expires])
                   ELSE /\ Goto(t, "fw_reload_expires", local[t])
                        /\ UNCHANGED fw
    /\ UNCHANGED <<setup, sw, tb, gcra>>

\* self.remaining.store(self.capacity, Release); expires = next_expires;
FW_StoreRemaining(t) ==
    /\ pc[t] = "fw_store_remaining"
    /\ fw' = [fw EXCEPT !.remaining = fw.capacity]
    /\ Goto(t, "fw_fetch_load", [local[t] EXCEPT !.expires = local[t].next_expires])
    /\ UNCHANGED <<setup, sw, tb, gcra>>

\* lost the race: expires = self.expires.load(Acquire);
FW_ReloadExpires(t) ==
    /\ pc[t] = "fw_reload_expires"
    /\ Goto(t, "fw_fetch_load", [local[t] EXCEPT !.expires = fw.expires])
    /\ UNCHANGED <<setup, structs>>

\* retry_after: Duration::from_nanos(expires.saturating_sub(now))
FW_RetryAfter(expires_, now_) == Max(expires_ - now_, 0)

\* self.remaining.fetch_update(..): the initial load of the CAS loop.  When
\* the closure yields None the call returns Err and process() rejects.
FW_FetchLoad(t) ==
    /\ pc[t] = "fw_fetch_load"
    /\ IF FW_Take(fw.remaining) >= 0
         THEN Goto(t, "fw_fetch_cas", [local[t] EXCEPT !.val = fw.remaining])
         ELSE Return(t, "Reject", FW_RetryAfter(local[t].expires, now[t]))
    /\ UNCHANGED <<setup, structs>>

\* (mutant) the decrement stored without comparing with the value loaded
FW_FetchCasOk_Blind(t) ==
    /\ fw' = [fw EXCEPT !.remaining = FW_Take(local[t].val)]
    /\ Return(t, "Admit", 0)

\* fetch_update's compare_exchange_weak(prev, next): success admits; a failed
\* (or spuriously failed) exchange hands back the current value and the
\* closure is applied to it again.
FW_FetchCasOk(t) ==
    /\ fw.remaining = local[t].val
    /\ fw' = [fw EXCEPT !.remaining = FW_Take(local[t].val)]
    /\ Return(t, "Admit", 0)

FW_FetchCasFail(t) ==
    /\ UNCHANGED fw
    /\ IF FW_Take(fw.remaining) >= 0
         THEN Goto(t, "fw_fetch_cas", [local[t] EXCEPT !.val = fw.remaining])
         ELSE Return(t, "Reject", FW_RetryAfter(local[t].expires, now[t]))

FW_FetchCas(t) ==
    /\ pc[t] = "fw_fetch_cas"
    /\ \/ FW_FetchCasOk(t)
       \/ FW_FetchCasFail(t)
    /\ UNCHANGED <<setup, sw, tb, gcra>>

FW_Process(t) ==
    \/ FW_LoadExpires(t)
    \/ FW_CasExpires(t)
    \/ FW_StoreRemaining(t)
    \/ FW_ReloadExpires(t)
    \/ FW_FetchLoad(t)
    \/ FW_FetchCas(t)

\* ---------------------------------------------------------- SlidingWindow
SlidingWindow_new(capacity, period) ==
    [capacity |-> capacity, period_ns |-> period,
     current_count |-> 0, previous_count |-> 0, current_window_start |-> 0]

\* if now >= window_start + self.period_ns
SW_MustSlide(now_, window_start, period_ns) == now_ >= window_start + period_ns

\* let new_window_start = (now / self.period_ns) * self.period_ns;
SW_NewWindowStart(now_, period_ns) == (now_ \div period_ns) * period_ns

\* (mutant) a window that was skipped is not told from the one that follows
SW_SkippedWindow_Never(now_, window_start, period_ns) == FALSE

\* if now >= window_start + (2 * self.period_ns) { 0 } else { current_count }
SW_SkippedWindow(now_, window_start, period_ns) == now_ >= window_start + (2 * period_ns)

\* let mut window_start = self.current_window_start.load(Acquire);
SW_LoadWindowStart(t) ==
    /\ pc[t] = "sw_load_window_start"
    /\ Goto(t, IF SW_MustSlide(now[t], sw.current_window_start, sw.period_ns)
                  THEN "sw_cas_window_start" ELSE "sw_load_previous",
             [local[t] EXCEPT !.window_start = sw.current_window_start])
    /\ UNCHANGED <<setup, structs>>

\* let new_window_start = (now / self.period_ns) * self.period_ns; (a zero
\* period: the division panics) then
\* self.current_window_start.compare_exchange(window_start, new_window_start, ..)
SW_CasWindowStart(t) ==
    /\ pc[t] = "sw_cas_window_start"
    /\ IF sw.period_ns = 0
         THEN Return(t, "Panic", 0) /\ UNCHANGED sw
         ELSE LET new_window_start == SW_NewWindowStart(now[t], sw.period_ns)
              IN IF sw.current_window_start = local[t].window_start
                   THEN /\ sw' = [sw EXCEPT !.current_window_start = new_window_start]
                        /\ IF SW_SkippedWindow(now[t], local[t].window_start, sw.period_ns)
                             THEN Goto(t, "sw_store_previous",
                                       [local[t] EXCEPT !.new_window_start = new_window_start,
                                                        !.prev_val = 0])
                             ELSE Goto(t, "sw_rotate_load_current",
                                       [local[t] EXCEPT !.new_window_start = new_window_start])
                   ELSE /\ Goto(t, "sw_reload_window_start", local[t])
                        /\ UNCHANGED sw
    /\ UNCHANGED <<setup, fw, tb, gcra>>

\* let prev_val = ... self.current_count.load(Acquire)
SW_RotateLoadCurrent(t) ==
    /\ pc[t] = "sw_rotate_load_current"
    /\ Goto(t, "sw_store_previous", [local[t] EXCEPT !.prev_val = sw.current_count])
    /\ UNCHANGED <<setup, structs>>

\* self.previous_count.store(prev_val, Release);
SW_StorePrevious(t) ==
    /\ pc[t] = "sw_store_previous"
    /\ sw' = [sw EXCEPT !.previous_count = local[t].prev_val]
    /\ Goto(t, "sw_store_current", local[t])
    /\ UNCHANGED <<setup, fw, tb, gcra>>

\* self.current_count.store(0, Release); window_start = new_window_start;
SW_StoreCurrent(t) ==
    /\ pc[t] = "sw_store_current"
    /\ sw' = [sw EXCEPT !.current_count = 0]
    /\ Goto(t, "sw_load_previous",
             [local[t] EXCEPT !.window_start = local[t].new_window_start])
    /\ UNCHANGED <<setup, fw, tb, gcra>>

\* lost the race: window_start = self.current_window_start.load(Acquire);
SW_ReloadWindowStart(t) ==
    /\ pc[t] = "sw_reload_window_start"
    /\ Goto(t, "sw_load_previous",
             [local[t] EXCEPT !.window_start = sw.current_window_start])
    /\ UNCHANGED <<setup, structs>>

\* let prev_count = self.previous_count.load(Acquire) as f64;
SW_LoadPrevious(t) ==
    /\ pc[t] = "sw_load_previous"
    /\ Goto(t, "sw_load_current", [local[t] EXCEPT !.prev_count = sw.previous_count])
    /\ UNCHANGED <<setup, structs>>

\* ---- f64 arithmetic: (x as f64 * (a as f64 / p as f64)).floor() for
\* integers 0 <= x, 0 <= a, 0 < p, all below 2^15.  Both the quotient and the
\* product are rounded to a 53-bit significand (round to nearest, ties to
\* even).  With L = floor(log2(a / p)) the quotient is m / 2^(52 - L) where
\* m = a * 2^(52 - L) / p rounded; when it was rounded down by rem / p, with
\* rem = a * 2^(52 - L) mod p, the product is below x * a / p by
\* x * rem / (p * 2^(52 - L)).  If x * a / p is an integer n and that shortfall
\* exceeds half the spacing 2^(E - 53) of the f64 values just below n
\* (E = ceil(log2 n)), the product rounds to the f64 value below n and its
\* floor is n - 1.  In every other case the floor is floor(x * a / p).
F64_Log2Ratio(a, p) ==
    IF a >= p THEN CHOOSE l \in 0..15 : p * 2^l <= a /\ a < p * 2^(l + 1)
    ELSE 0 - (CHOOSE j \in 1..15 : a * 2^j >= p /\ a * 2^(j - 1) < p)

F64_CeilLog2(n) == CHOOSE e \in 0..30 : 2^e >= n /\ (e = 0 \/ 2^(e - 1) < n)

\* 2^k mod p for 0 <= k <= 60
F64_Pow2Mod(k, p) == (((2^(k \div 2)) % p) * ((2^(k - (k \div 2))) % p)) % p

F64_FloorShort(x, a, p) ==
    IF x = 0 \/ a = 0 \/ (x * a) % p # 0 THEN 0
    ELSE LET l == F64_Log2Ratio(a, p)
             rem == (a * F64_Pow2Mod(52 - l, p)) % p
             e == F64_CeilLog2((x * a) \div p)
         IN IF 2 * rem < p /\ 4 * x * rem > p * 2^(e - l) THEN 1 ELSE 0

F64_MulDivFloor(x, a, p) == ((x * a) \div p) - F64_FloorShort(x, a, p)

\* (prev_count * weight).floor() as usize with
\* weight = (period_ns - elapsed_in_window) as f64 / period_ns as f64, for a
\* numerator `left` = period_ns - elapsed_in_window that did not wrap.
SW_Weighted(prev_count, left, period_ns) == F64_MulDivFloor(prev_count, left, period_ns)

\* The outcomes of
\*   let elapsed_in_window = now - window_start;
\*   let weight = (self.period_ns - elapsed_in_window) as f64 / ..;
\*   let estimated_count = (prev_count * weight).floor() as usize + curr_count;
\* as a set of records: kind "count" carries the estimate, kind "huge" an
\* estimate near 2^64 (above every capacity), kind "panic" an overflow panic.
\* u64 subtraction panics when overflow checks are on and wraps otherwise:
\*  - now < window_start: the first difference wraps, the second wraps back,
\*    leaving period_ns + (window_start - now);
\*  - now - window_start > period_ns: the second difference wraps to just below
\*    2^64; the weight is 2^64 / period_ns, the product saturates the cast to
\*    usize::MAX when prev_count >= period_ns, and adding curr_count >= 1 to
\*    usize::MAX wraps to curr_count - 1.
SW_Estimate(prev_count, curr_count, now_, window_start, period_ns) ==
    IF now_ < window_start
      THEN {[kind |-> "panic", est |-> 0],
            [kind |-> "count",
             est |-> SW_Weighted(prev_count, period_ns + (window_start - now_), period_ns)
                     + curr_count]}
    ELSE IF now_ - window_start > period_ns
      THEN {[kind |-> "panic", est |-> 0]} \cup
           (IF prev_count = 0 THEN {[kind |-> "count", est |-> curr_count]}
            ELSE IF prev_count >= period_ns /\ curr_count >= 1
              THEN {[kind |-> "count", est |-> curr_count - 1]}
            ELSE {[kind |-> "huge", est |-> 0]})
    ELSE {[kind |-> "count",
           est |-> SW_Weighted(prev_count, period_ns - (now_ - window_start), period_ns)
                   + curr_count]}

\* (mutant) the comparison made non-strict
SW_HasRoom_Le(estimated_count, capacity) == estimated_count <= capacity

\* if estimated_count < self.capacity
SW_HasRoom(estimated_count, capacity) == estimated_count < capacity

\* ((missing as f64 / self.capacity as f64) * self.period_ns as f64).ceil() as u64
SW_RetryAfter(estimated_count, capacity, period_ns) ==
    LET missing == estimated_count - capacity
    IN IF missing > 0
         THEN (missing * period_ns + capacity - 1) \div capacity
         ELSE 0

\* retry_after of a rejection whose estimate is near 2^64: outside the model's
\* integer range, recorded as -1.
SW_RetryAfterHuge == 0 - 1

\* let curr_count = self.current_count.load(Acquire); ...; the decision
SW_LoadCurrent(t) ==
    /\ pc[t] = "sw_load_current"
    /\ \E e \in SW_Estimate(local[t].prev_count, sw.current_count, now[t],
                            local[t].window_start, sw.period_ns) :
         CASE e.kind = "panic" -> Return(t, "Panic", 0)
           [] e.kind = "huge" -> Return(t, "Reject", SW_RetryAfterHuge)
           [] e.kind = "count" ->
                IF SW_HasRoom(e.est, sw.capacity)
                  THEN Goto(t, "sw_fetch_add", local[t])
                  ELSE Return(t, "Reject", SW_RetryAfter(e.est, sw.capacity, sw.period_ns))
    /\ UNCHANGED <<setup, structs>>

\* self.current_count.fetch_add(1, SeqCst); ControlFlow::Continue(())
SW_FetchAdd(t) ==
    /\ pc[t] = "sw_fetch_add"
    /\ sw' = [sw EXCEPT !.current_count = @ + 1]
    /\ Return(t, "Admit", 0)
    /\ UNCHANGED <<setup, fw, tb, gcra>>

SW_Process(t) ==
    \/ SW_LoadWindowStart(t)
    \/ SW_CasWindowStart(t)
    \/ SW_RotateLoadCurrent(t)
    \/ SW_StorePrevious(t)
    \/ SW_StoreCurrent(t)
    \/ SW_ReloadWindowStart(t)
    \/ SW_LoadPrevious(t)
    \/ SW_LoadCurrent(t)
    \/ SW_FetchAdd(t)

\* ------------------------------------------------------------ TokenBucket
\* const UNITS_SCALE: u64 = 1_000_000_000; // Cost of 1 token
UNITS_SCALE == 1000000000

\* A u64 amount of units is held as <<whole tokens, units below one token>>,
\* i.e. <<u \div UNITS_SCALE, u % UNITS_SCALE>>, so that every intermediate
\* value stays inside the model checker's 32-bit integers.
Units(tokens, sub) == <<tokens, sub>>
U_Add(a, b) ==
    LET sub == a[2] + b[2]
    IN IF sub >= UNITS_SCALE THEN <<a[1] + b[1] + 1, sub - UNITS_SCALE>>
                             ELSE <<a[1] + b[1], sub>>
U_Less(a, b) == a[1] < b[1] \/ (a[1] = b[1] /\ a[2] < b[2])
U_Min(a, b) == IF U_Less(b, a) THEN b ELSE a

\* refill_rate_units_per_ns = (increment * UNITS_SCALE) as f64 / period as f64
\* is kept as the pair increment, period (0.0 when the period is zero).
TokenBucket_new(capacity, increment, period) ==
    [capacity_units |-> Units(capacity, 0),
     increment |-> increment, period |-> period,
     units |-> Units(capacity, 0),
     last_update_ns |-> 0]

\* let elapsed = now.saturating_sub(last_update);
TB_Elapsed(now_, last_update) == Max(now_ - last_update, 0)

\* floor(elapsed * increment * UNITS_SCALE / period) in exact arithmetic,
\* computed on the quotient and remainder of elapsed * increment by period.
TB_RefillExact(elapsed, increment, period) ==
    LET total == elapsed * increment
        r == total % period
    IN Units(total \div period,
             r * (UNITS_SCALE \div period) + (r * (UNITS_SCALE % period)) \div period)

\* 2^k units, for 0 <= k <= 39 (UNITS_SCALE = 2^9 * 1953125)
U_Pow2(k) ==
    IF k < 9 THEN Units(0, 2^k)
    ELSE Units((2^(k - 9)) \div 1953125, ((2^(k - 9)) % 1953125) * 512)

\* What the f64 evaluation of the refill is short of the exact floor: one unit
\* when the rate (increment * UNITS_SCALE) as f64 / period as f64 was rounded
\* down and elapsed * rate, exactly an integer n in real arithmetic, rounds to
\* the f64 value below n (see F64_FloorShort); nothing otherwise.
TB_RefillShort(elapsed, increment, period) ==
    LET amod == ((increment % period) * (UNITS_SCALE % period)) % period
    IN IF elapsed = 0 \/ amod = 0 \/ ((elapsed % period) * amod) % period # 0 THEN 0
       ELSE LET q == increment * (UNITS_SCALE \div period)
                     + (increment * (UNITS_SCALE % period)) \div period
                l == CHOOSE k \in 0..30 : q \div 2^k = 1
                rem == (amod * F64_Pow2Mod(52 - l, period)) % period
                n == TB_RefillExact(elapsed, increment, period)
                e == CHOOSE k \in 0..39 :
                        /\ ~U_Less(U_Pow2(k), n)
                        /\ k = 0 \/ U_Less(U_Pow2(k - 1), n)
            IN IF 2 * rem < period /\ 4 * elapsed * rem > period * 2^(e - l)
                 THEN 1 ELSE 0

\* let refill = (elapsed as f64 * self.refill_rate_units_per_ns).floor() as u64;
TB_Refill(elapsed, increment, period) ==
    IF period = 0 THEN Units(0, 0)
    ELSE LET exact == TB_RefillExact(elapsed, increment, period)
         IN IF TB_RefillShort(elapsed, increment, period) = 0 THEN exact
            ELSE IF exact[2] > 0 THEN Units(exact[1], exact[2] - 1)
            ELSE Units(exact[1] - 1, UNITS_SCALE - 1)

\* (mutant) the refill not capped at the capacity
TB_NewUnits_Uncapped(capacity_units, current_units, refill) == U_Add(current_units, refill)

\* let new_units = std::cmp::min(self.capacity_units, current_units + refill);
TB_NewUnits(capacity_units, current_units, refill) ==
    U_Min(capacity_units, U_Add(current_units, refill))

\* (mutant) a bucket below one token is not told from one that holds a token
TB_Empty_Never(new_units) == FALSE

\* if new_units < Self::UNITS_SCALE
TB_Empty(new_units) == new_units[1] < 1

\* ceil(missing_units / rate) in exact arithmetic: the least number of
\* nanoseconds whose exact refill covers the missing units.
TB_WaitExact(missing, increment, period) ==
    LET covers(w) == LET f == TB_RefillExact(w, increment, period)
                     IN f[1] >= 1 \/ f[2] >= missing
    IN CHOOSE w \in 0..period : covers(w) /\ \A v \in 0..(w - 1) : ~covers(v)

\* What the f64 evaluation of the quotient is above the exact ceiling: one
\* nanosecond when missing_units / rate is exactly an integer w in real
\* arithmetic, the rate was rounded down (by rem / period in its last place,
\* as in TB_RefillShort) and the quotient, above w by w * rem / (2^(52 - l) *
\* increment * UNITS_SCALE), rounds to the f64 value above w, i.e. exceeds half
\* the spacing 2^(f - 52) of the f64 values from w on (f = floor(log2 w));
\* nothing otherwise.
TB_WaitLong(w, missing, increment, period) ==
    LET amod == ((increment % period) * (UNITS_SCALE % period)) % period
        n == TB_RefillExact(w, increment, period)
    IN IF \/ w = 0 \/ amod = 0
          \/ (((w * increment) % period) * (UNITS_SCALE % period)) % period # 0
          \/ n # Units(missing \div UNITS_SCALE, missing % UNITS_SCALE)
         THEN 0
       ELSE LET q == increment * (UNITS_SCALE \div period)
                     + (increment * (UNITS_SCALE % period)) \div period
                l == CHOOSE k \in 0..30 : q \div 2^k = 1
                rem == (amod * F64_Pow2Mod(52 - l, period)) % period
                f == CHOOSE k \in 0..30 : w \div 2^k = 1
                d == 2 * w * rem
            IN IF /\ rem > 0 /\ 2 * rem < period
                  /\ 2^(l - f) > increment * (UNITS_SCALE \div d)
                                 + (increment * (UNITS_SCALE % d)) \div d
                 THEN 1 ELSE 0

\* (mutant) the quotient rounded down instead of up
TB_WaitNs_Floor(new_units, increment, period) ==
    IF period = 0 THEN UNITS_SCALE
    ELSE LET missing == UNITS_SCALE - new_units[2]
             w == TB_WaitExact(missing, increment, period)
         IN IF TB_RefillExact(w, increment, period)
                    = Units(missing \div UNITS_SCALE, missing % UNITS_SCALE)
              THEN w ELSE w - 1

\* (missing_units as f64 / self.refill_rate_units_per_ns).ceil() as u64, or
\* UNITS_SCALE when the rate is zero.
TB_WaitNs(new_units, increment, period) ==
    IF period = 0 THEN UNITS_SCALE
    ELSE LET missing == UNITS_SCALE - new_units[2]
             w == TB_WaitExact(missing, increment, period)
         IN w + TB_WaitLong(w, missing, increment, period)

\* let last_update = self.last_update_ns.load(Acquire);
TB_LoadLastUpdate(t) ==
    /\ pc[t] = "tb_load_last_update"
    /\ Goto(t, "tb_load_units", [local[t] EXCEPT !.last_update = tb.last_update_ns])
    /\ UNCHANGED <<setup, structs>>

\* let current_units = self.units.load(Acquire); refill; the emptiness check
TB_LoadUnits(t) ==
    /\ pc[t] = "tb_load_units"
    /\ LET elapsed == TB_Elapsed(now[t], local[t].last_update)
           refill == TB_Refill(elapsed, tb.increment, tb.period)
           new_units == TB_NewUnits(tb.capacity_units, tb.units, refill)
       IN IF TB_Empty(new_units)
            THEN Return(t, "Reject", TB_WaitNs(new_units, tb.increment, tb.period))
            ELSE Goto(t, "tb_cas_last_update", [local[t] EXCEPT !.new_units = new_units])
    /\ UNCHANGED <<setup, structs>>

\* self.last_update_ns.compare_exchange_weak(last_update, now, SeqCst, Relaxed):
\* a weak exchange may also fail although the values are equal.
TB_CasLastUpdate(t) ==
    /\ pc[t] = "tb_cas_last_update"
    /\ \/ /\ tb.last_update_ns = local[t].last_update
          /\ tb' = [tb EXCEPT !.last_update_ns = now[t]]
          /\ Goto(t, "tb_store_units", local[t])
       \/ /\ UNCHANGED tb
          /\ Goto(t, "tb_load_last_update", local[t])
    /\ UNCHANGED <<setup, fw, sw, gcra>>

\* self.units.store(new_units - Self::UNITS_SCALE, Release); Continue(())
TB_StoreUnits(t) ==
    /\ pc[t] = "tb_store_units"
    /\ tb' = [tb EXCEPT !.units = Units(local[t].new_units[1] - 1, local[t].new_units[2])]
    /\ Return(t, "Admit", 0)
    /\ UNCHANGED <<setup, fw, sw, gcra>>

TB_Process(t) ==
    \/ TB_LoadLastUpdate(t)
    \/ TB_LoadUnits(t)
    \/ TB_CasLastUpdate(t)
    \/ TB_StoreUnits(t)

\* ------------------------------------------------------------------- Gcra
Gcra_with_clock(limit, period) ==
    [tat |-> 0,
     emission_interval_ns |-> period \div limit,
     delay_tolerance_ns |-> period]

\* (mutant) the arrival taken to be now, whatever tat is
GC_NextTat_Now(now_, tat, emission_interval_ns) == now_ + emission_interval_ns

\* let arrival = if now > tat { now } else { tat };
\* let next_tat = arrival + self.emission_interval_ns;
GC_NextTat(now_, tat, emission_interval_ns) ==
    (IF now_ > tat THEN now_ ELSE tat) + emission_interval_ns

\* (mutant) the comparison of the comment above it: "Use >="
GC_Exceeds_Ge(next_tat, now_, delay_tolerance_ns) == next_tat >= now_ + delay_tolerance_ns

\* if next_tat > now + self.delay_tolerance_ns
GC_Exceeds(next_tat, now_, delay_tolerance_ns) == next_tat > now_ + delay_tolerance_ns

\* let tat = self.tat.load(Acquire); ...; the conformance check
GC_LoadTat(t) ==
    /\ pc[t] = "gc_load_tat"
    /\ LET next_tat == GC_NextTat(now[t], gcra.tat, gcra.emission_interval_ns)
       IN IF GC_Exceeds(next_tat, now[t], gcra.delay_tolerance_ns)
            THEN Return(t, "Reject", next_tat - (now[t] + gcra.delay_tolerance_ns))
            ELSE Goto(t, "gc_cas_tat",
                      [local[t] EXCEPT !.tat = gcra.tat, !.next_tat = next_tat])
    /\ UNCHANGED <<setup, structs>>

\* (mutant) next_tat stored without comparing with the tat loaded
GC_CasTat_Blind(t) ==
    /\ pc[t] = "gc_cas_tat"
    /\ gcra' = [gcra EXCEPT !.tat = local[t].next_tat]
    /\ Return(t, "Admit", 0)
    /\ UNCHANGED <<setup, fw, sw, tb>>

\* self.tat.compare_exchange_weak(tat, next_tat, Release, Relaxed): a weak
\* exchange may also fail although the values are equal; the loop then reloads.
GC_CasTat(t) ==
    /\ pc[t] = "gc_cas_tat"
    /\ \/ /\ gcra.tat = local[t].tat
          /\ gcra' = [gcra EXCEPT !.tat = local[t].next_tat]
          /\ Return(t, "Admit", 0)
       \/ /\ UNCHANGED gcra
          /\ Goto(t, "gc_load_tat", local[t])
    /\ UNCHANGED <<setup, fw, sw, tb>>

GC_Process(t) ==
    \/ GC_LoadTat(t)
    \/ GC_CasTat(t)

\* ------------------------------------------------------- RateLimitService
\* Option::None of wait_start, sleep and timeout
None == 0 - 1

\* RateLimitService::new / Clone::clone: sleep: None, permit_acquired: false,
\* wait_start: None; is_ready is the flag of the LoadShed wrapped around it.
RateLimitService_new ==
    [sleep |-> None, permit_acquired |-> FALSE, wait_start |-> None, is_ready |-> FALSE]

NoOutcome == [kind |-> "none", retry_after |-> 0, waited |-> 0]

\* inner and wake belong to the future of RateLimitRetryService::call: the
\* RateLimitService moved into it and the end of its tokio::time::sleep
NoTask == [st |-> "idle", first_poll |-> None, deadline |-> None,
           inner |-> RateLimitService_new, wake |-> None]

\* std::time::Duration: whole seconds and the nanoseconds beyond them
Duration(secs, nanos) == [secs |-> secs, nanos |-> nanos]

\* a BoxError: its concrete type, and for a ShotError the variant and what
\* it carries; msg is what Display prints for the other types
BoxError(type, kind, retry_after, msg) ==
    [type |-> type, kind |-> kind, retry_after |-> retry_after, msg |-> msg]

NoError == BoxError("none", "none", Duration(0, 0), "")

NoResponse == [status |-> 0, retry_after |-> None]

NoBoundary == [stage |-> "none", origin |-> "none", err |-> NoError,
               seen |-> NoError, response |-> NoResponse]

\* no middleware is built: the strategy is called directly
NoTower ==
    /\ cfg = [stack |-> "none", fail_fast |-> FALSE, timeout |-> None,
              shed |-> FALSE, max_wait |-> None, handler |-> "none"]
    /\ svc = [t \in Threads |-> RateLimitService_new]
    /\ task = [t \in Threads |-> NoTask]
    /\ handled = 0
    /\ admitted = 0
    /\ out = [t \in Threads |-> NoOutcome]
    /\ boundary = NoBoundary

\* self.limiter.process() of a FixedWindow, run to its end without another
\* caller in between: the rotation, then the fetch_update.
FW_ProcessOnce(f, now_) ==
    LET rotate == FW_Expired(now_, f.expires)
        expires == IF rotate THEN FW_NextExpires(now_, f.expires, f.interval) ELSE f.expires
        remaining == IF rotate THEN f.capacity ELSE f.remaining
    IN IF FW_Take(remaining) >= 0
         THEN [limiter |-> [f EXCEPT !.expires = expires, !.remaining = FW_Take(remaining)],
               res |-> "Admit", retry_after |-> 0]
         ELSE [limiter |-> [f EXCEPT !.expires = expires, !.remaining = remaining],
               res |-> "Reject", retry_after |-> FW_RetryAfter(expires, now_)]

\* The rotation of SlidingWindow::process without another caller in between:
\* the window start moves to the start of the window now_ lies in,
\* previous_count takes current_count (0 after a skipped window) and
\* current_count is cleared.
SW_Rotate(s, now_) ==
    IF SW_MustSlide(now_, s.current_window_start, s.period_ns)
      THEN [s EXCEPT !.current_window_start = SW_NewWindowStart(now_, s.period_ns),
                     !.previous_count =
                        IF SW_SkippedWindow(now_, s.current_window_start, s.period_ns)
                          THEN 0 ELSE s.current_count,
                     !.current_count = 0]
      ELSE s

\* self.limiter.process() of a SlidingWindow, run to its end without another
\* caller in between, for a clock that is not behind the window start (the
\* estimate is then a single count) and a period that is not zero.
SW_ProcessOnce(s, now_) ==
    LET w == SW_Rotate(s, now_)
        e == CHOOSE x \in SW_Estimate(w.previous_count, w.current_count, now_,
                                      w.current_window_start, w.period_ns) :
                 x.kind = "count"
    IN IF SW_HasRoom(e.est, w.capacity)
         THEN [limiter |-> [w EXCEPT !.current_count = @ + 1],
               res |-> "Admit", retry_after |-> 0]
         ELSE [limiter |-> w, res |-> "Reject",
               retry_after |-> SW_RetryAfter(e.est, w.capacity, w.period_ns)]

\* self.limiter.process() of a TokenBucket, run to its end without another
\* caller in between: the exchange of last_update_ns fails only spuriously,
\* and the loop then computes the same values again.
TB_ProcessOnce(b, now_) ==
    LET elapsed == TB_Elapsed(now_, b.last_update_ns)
        refill == TB_Refill(elapsed, b.increment, b.period)
        new_units == TB_NewUnits(b.capacity_units, b.units, refill)
    IN IF TB_Empty(new_units)
         THEN [limiter |-> b, res |-> "Reject",
               retry_after |-> TB_WaitNs(new_units, b.increment, b.period)]
         ELSE [limiter |-> [b EXCEPT !.last_update_ns = now_,
                                     !.units = Units(new_units[1] - 1, new_units[2])],
               res |-> "Admit", retry_after |-> 0]

\* self.limiter.process() for the strategy L the service was built with
ProcessOnce(l, now_) ==
    CASE "expires" \in DOMAIN l -> FW_ProcessOnce(l, now_)
      [] "current_window_start" \in DOMAIN l -> SW_ProcessOnce(l, now_)
      [] "last_update_ns" \in DOMAIN l -> TB_ProcessOnce(l, now_)

\* The result of a poll_ready: the service afterwards, the strategy
\* afterwards, what is returned, and what was done on the way.
PollResult(s, f, ret, retry, strat, strat_retry, slept) ==
    [svc |-> s, limiter |-> f, ret |-> ret, retry_after |-> retry,
     strat |-> strat, strat_retry |-> strat_retry, slept |-> slept]

\* (mutant) a sleep that is ready at once falls through to Poll::Ready(Ok(()))
RL_Sleep_Through(s, f, r, retry_after) ==
    LET start == IF s.wait_start = None THEN r ELSE s.wait_start
        s1 == [s EXCEPT !.wait_start = start]
        remaining == Max(cfg.timeout - (r - start), 0)
        sleep_duration == IF cfg.timeout # None THEN Min(retry_after, remaining)
                                                ELSE retry_after
    IN IF cfg.timeout # None /\ remaining = 0
         THEN PollResult([s1 EXCEPT !.wait_start = None], f,
                         "Timeout", 0, "Reject", retry_after, FALSE)
       ELSE IF sleep_duration > 0
         THEN PollResult([s1 EXCEPT !.sleep = r + sleep_duration], f,
                         "Pending", 0, "Reject", retry_after, TRUE)
       ELSE PollResult(s1, f, "Ready", 0, "Reject", retry_after, FALSE)

\* (mutant) the sleep lasts retry_after whatever is left of the timeout
RL_Sleep_Uncapped(s, f, r, retry_after) ==
    LET start == IF s.wait_start = None THEN r ELSE s.wait_start
        s1 == [s EXCEPT !.wait_start = start]
    IN IF retry_after > 0
         THEN PollResult([s1 EXCEPT !.sleep = r + retry_after], f,
                         "Pending", 0, "Reject", retry_after, TRUE)
         ELSE PollResult(s1, f, "Pending", 0, "Reject", retry_after, FALSE)

\* poll_ready, part 3, the strategy rejected and fail_fast is off: the sleep
\* of min(retry_after, remaining) is created and polled once; a sleep of zero
\* length is ready at once and the task is woken instead.
RL_Sleep(s, f, r, retry_after) ==
    LET start == IF s.wait_start = None THEN r ELSE s.wait_start
        s1 == [s EXCEPT !.wait_start = start]
        remaining == Max(cfg.timeout - (r - start), 0)
        sleep_duration == IF cfg.timeout # None THEN Min(retry_after, remaining)
                                                ELSE retry_after
    IN IF cfg.timeout # None /\ remaining = 0
         THEN PollResult([s1 EXCEPT !.wait_start = None], f,
                         "Timeout", 0, "Reject", retry_after, FALSE)
       ELSE IF sleep_duration > 0
         THEN PollResult([s1 EXCEPT !.sleep = r + sleep_duration], f,
                         "Pending", 0, "Reject", retry_after, TRUE)
       ELSE PollResult(s1, f, "Pending", 0, "Reject", retry_after, FALSE)

\* part 3 without its guard: the strategy is asked whether or not a permit
\* is held
RL_AskLimiter_Unguarded(s, f, r) ==
    LET s1 == IF cfg.timeout # None /\ s.wait_start = None
                THEN [s EXCEPT !.wait_start = r] ELSE s
    IN IF cfg.timeout # None /\ r - s1.wait_start >= cfg.timeout
         THEN PollResult([s1 EXCEPT !.wait_start = None], f,
                         "Timeout", 0, "none", 0, FALSE)
         ELSE LET p == ProcessOnce(f, r)
              IN IF p.res = "Admit"
                   THEN PollResult([s1 EXCEPT !.permit_acquired = TRUE], p.limiter,
                                   "Ready", 0, "Admit", 0, FALSE)
                 ELSE IF cfg.fail_fast
                   THEN PollResult(s1, p.limiter, "RateLimited", p.retry_after,
                                   "Reject", p.retry_after, FALSE)
                 ELSE RL_Sleep(s1, p.limiter, r, p.retry_after)

\* part 3 with fail_fast ignored: a rejected request always waits
RL_AskLimiter_Waits(s, f, r) ==
    IF s.permit_acquired THEN PollResult(s, f, "Ready", 0, "none", 0, FALSE)
    ELSE LET s1 == IF cfg.timeout # None /\ s.wait_start = None
                     THEN [s EXCEPT !.wait_start = r] ELSE s
         IN IF cfg.timeout # None /\ r - s1.wait_start >= cfg.timeout
              THEN PollResult([s1 EXCEPT !.wait_start = None], f,
                              "Timeout", 0, "none", 0, FALSE)
              ELSE LET p == ProcessOnce(f, r)
                   IN IF p.res = "Admit"
                        THEN PollResult([s1 EXCEPT !.permit_acquired = TRUE], p.limiter,
                                        "Ready", 0, "Admit", 0, FALSE)
                      ELSE RL_Sleep(s1, p.limiter, r, p.retry_after)

\* poll_ready, part 3: if !self.permit_acquired { the timeout check;
\* match self.limiter.process() { .. } }  Poll::Ready(Ok(()))
RL_AskLimiter(s, f, r) ==
    IF s.permit_acquired THEN PollResult(s, f, "Ready", 0, "none", 0, FALSE)
    ELSE LET s1 == IF cfg.timeout # None /\ s.wait_start = None
                     THEN [s EXCEPT !.wait_start = r] ELSE s
         IN IF cfg.timeout # None /\ r - s1.wait_start >= cfg.timeout
              THEN PollResult([s1 EXCEPT !.wait_start = None], f,
                              "Timeout", 0, "none", 0, FALSE)
              ELSE LET p == ProcessOnce(f, r)
                   IN IF p.res = "Admit"
                        THEN PollResult([s1 EXCEPT !.permit_acquired = TRUE], p.limiter,
                                        "Ready", 0, "Admit", 0, FALSE)
                      ELSE IF cfg.fail_fast
                        THEN PollResult(s1, p.limiter, "RateLimited", p.retry_after,
                                        "Reject", p.retry_after, FALSE)
                      ELSE RL_Sleep(s1, p.limiter, r, p.retry_after)

\* (mutant) the strategy asked first, the downstream handler after it
RL_InnerReady_Late(s, f, r, inner) ==
    [RL_AskLimiter(s, f, r) EXCEPT
       !.ret = IF @ # "Ready" \/ inner = "ready" THEN @
               ELSE IF inner = "pending" THEN "Pending" ELSE "Inner"]

\* poll_ready, part 2: match self.inner.poll_ready(cx) { .. }
RL_InnerReady(s, f, r, inner) ==
    CASE inner = "pending" -> PollResult(s, f, "Pending", 0, "none", 0, FALSE)
      [] inner = "err" -> PollResult(s, f, "Inner", 0, "none", 0, FALSE)
      [] inner = "ready" -> RL_AskLimiter(s, f, r)

\* part 1 with the sleep never taken off: once asleep, always Pending
RL_PollReady_Asleep(s, f, r, inner) ==
    IF s.sleep = None THEN RL_InnerReady(s, f, r, inner)
    ELSE PollResult(s, f, "Pending", 0, "none", 0, FALSE)

\* RateLimitService::poll_ready at clock reading r, the downstream handler
\* answering its own poll_ready with `inner`.  Part 1: a pending sleep.
RL_PollReady(s, f, r, inner) ==
    IF s.sleep = None THEN RL_InnerReady(s, f, r, inner)
    ELSE IF r < s.sleep THEN PollResult(s, f, "Pending", 0, "none", 0, FALSE)
    ELSE LET s1 == [s EXCEPT !.sleep = None]
         IN IF cfg.timeout # None /\ s.wait_start # None
               /\ r - s.wait_start >= cfg.timeout
              THEN PollResult([s1 EXCEPT !.wait_start = None], f,
                              "Timeout", 0, "none", 0, FALSE)
              ELSE RL_InnerReady(s1, f, r, inner)

\* RateLimitService::call: the timeout left for the downstream call
RL_TimeoutDuration(s, r) ==
    IF cfg.timeout = None THEN None
    ELSE IF s.wait_start = None THEN cfg.timeout
    ELSE Max(cfg.timeout - (r - s.wait_start), 0)

\* (mutant) a field-by-field copy, as #[derive(Clone)] would make it
RL_Clone_Derived(s) == s

\* impl Clone for RateLimitService: limiter: Arc::clone(&self.limiter),
\* sleep: None, permit_acquired: false, fail_fast: self.fail_fast,
\* timeout: self.timeout, wait_start: None
RL_Clone(s) ==
    [limiter |-> s.limiter,
     sleep |-> None,
     permit_acquired |-> FALSE,
     fail_fast |-> s.fail_fast,
     timeout |-> s.timeout,
     wait_start |-> None]

\* ------------------------------------------- the tasks that send requests
\* The downstream handler is the tests' MockService, always ready and done
\* at once, or any Service.
Handlers == {"MockService", "any"}

\* what the downstream handler may answer to poll_ready
InnerAnswers ==
    IF cfg.handler = "MockService" THEN {"ready"} ELSE {"ready", "pending", "err"}

\* whether the downstream handler's future may be done when it is polled
InnerDone == IF cfg.handler = "MockService" THEN {TRUE} ELSE BOOLEAN

\* the earlier of two optional deadlines
Earlier(a, b) == IF a = None THEN b ELSE IF b = None THEN a ELSE Min(a, b)

\* the strategy object behind the Arc<L> that every clone of the service holds
Limiter ==
    CASE strategy = "FixedWindow" -> fw
      [] strategy = "SlidingWindow" -> sw
      [] strategy = "TokenBucket" -> tb

\* what a process() call leaves in that strategy object
StoreLimiter(l) ==
    CASE strategy = "FixedWindow" -> fw' = l /\ UNCHANGED <<sw, tb, gcra>>
      [] strategy = "SlidingWindow" -> sw' = l /\ UNCHANGED <<fw, tb, gcra>>
      [] strategy = "TokenBucket" -> tb' = l /\ UNCHANGED <<fw, sw, gcra>>

\* latest clock reading of a request that waits in a bare RateLimitService:
\* more than a period after the latest reading at which a request is begun
PatientHorizon == MaxSvcTime + MaxPeriod + 1

\* The clock readings task i can take: a request is begun by MaxSvcTime; one
\* that waits without a deadline (RateLimitService::new, no timeout) is
\* followed until PatientHorizon.
SvcReadings(i) ==
    IF cfg.stack = "RateLimitService" /\ task[i].st \notin {"idle", "cloned"}
      THEN clock..PatientHorizon ELSE clock..MaxSvcTime

\* The request of task i ends: its outcome is recorded and the task is free
\* for its next request.
Finish(i, kind, retry, r) ==
    /\ out' = [out EXCEPT ![i] = [kind |-> kind, retry_after |-> retry,
                                  waited |-> r - task[i].first_poll]]
    /\ task' = [task EXCEPT ![i] = NoTask]

\* The RateLimitService of task i with all its fields: every service of a
\* stack was built with the stack's flags around the one strategy object.
RateLimitService(i) ==
    [limiter |-> strategy,
     sleep |-> svc[i].sleep,
     permit_acquired |-> svc[i].permit_acquired,
     fail_fast |-> cfg.fail_fast,
     timeout |-> cfg.timeout,
     wait_start |-> svc[i].wait_start]

\* Task j, before a request, drops its service for a clone of the service of
\* task i, in whatever state that is; a LoadShed around it is cloned with
\* is_ready: false.
SvcClone(i, j) ==
    /\ profile = "svc"
    /\ i # j
    /\ task[j].st = "idle"
    /\ callsLeft[j] > 0
    /\ LET c == RL_Clone(RateLimitService(i))
       IN /\ c.limiter = strategy /\ c.fail_fast = cfg.fail_fast /\ c.timeout = cfg.timeout
          /\ svc' = [svc EXCEPT ![j] = [sleep |-> c.sleep,
                                        permit_acquired |-> c.permit_acquired,
                                        wait_start |-> c.wait_start,
                                        is_ready |-> FALSE]]
    /\ task' = [task EXCEPT ![j].st = "cloned"]
    /\ UNCHANGED <<clock, strategy, args, profile, callsLeft, pc, now, local, log,
                   structs, cfg, boundary, handled, admitted, out>>

\* Task i polls its service for readiness (ServiceExt::ready), for a new
\* request or for the one it is waiting with.  Around the RateLimitService a
\* LoadShed layer, when the stack has one, turns Pending into Ready and
\* remembers it: self.is_ready = match self.inner.poll_ready(cx) { Err(e) =>
\* return Err(e), r => r.is_ready() }; Poll::Ready(Ok(())).
SvcPollReady(i) ==
    /\ profile = "svc"
    /\ task[i].st \in {"idle", "cloned", "polling", "ready"}
    /\ task[i].st \in {"idle", "cloned"} => callsLeft[i] > 0
    /\ \E r \in SvcReadings(i), inner \in InnerAnswers :
         LET base == RL_PollReady(svc[i], Limiter, r, inner)
             shedding == cfg.shed /\ base.ret \in {"Pending", "Ready"}
             ret == IF shedding THEN "Ready" ELSE base.ret
             me == IF task[i].st \in {"idle", "cloned"} THEN [task[i] EXCEPT !.first_poll = r]
                                          ELSE task[i]
         IN /\ clock' = r
            /\ callsLeft' = IF task[i].st \in {"idle", "cloned"}
                              THEN [callsLeft EXCEPT ![i] = @ - 1] ELSE callsLeft
            /\ StoreLimiter(base.limiter)
            /\ svc' = [svc EXCEPT ![i] = IF shedding
                          THEN [base.svc EXCEPT !.is_ready = (base.ret = "Ready")]
                          ELSE base.svc]
            /\ admitted' = IF base.strat = "Admit" THEN admitted + 1 ELSE admitted
            /\ IF ret \in {"Ready", "Pending"}
                 THEN /\ task' = [task EXCEPT ![i] =
                                    [me EXCEPT !.st = IF ret = "Ready" THEN "ready"
                                                                      ELSE "polling"]]
                      /\ UNCHANGED out
                 ELSE /\ out' = [out EXCEPT ![i] =
                                    [kind |-> ret, retry_after |-> base.retry_after,
                                     waited |-> r - me.first_poll]]
                      /\ task' = [task EXCEPT ![i] = NoTask]
    /\ UNCHANGED <<strategy, args, profile, pc, now, local, log,
                   cfg, boundary, handled>>

\* Task i, told Ready, calls its service.  LoadShed::call answers
\* Err(Overloaded) when its last poll_ready found the service not ready, and
\* map_overloaded / the MapErr closure make it ShotError::Overloaded.
\* RateLimitService::call gives up the permit, takes wait_start, calls the
\* downstream handler and wraps its future in the timeout that is left; a
\* tower Timeout layer around it adds its own deadline.
SvcCall(i) ==
    /\ profile = "svc"
    /\ task[i].st = "ready"
    /\ \E r \in SvcReadings(i) :
         /\ clock' = r
         /\ IF cfg.shed /\ ~svc[i].is_ready
              THEN /\ Finish(i, "Overloaded", 0, r)
                   /\ UNCHANGED <<svc, handled>>
              ELSE LET left == RL_TimeoutDuration(svc[i], r)
                       mine == IF left = None THEN None ELSE r + left
                       outer == IF cfg.max_wait = None THEN None ELSE r + cfg.max_wait
                   IN /\ svc' = [svc EXCEPT ![i].permit_acquired = FALSE,
                                            ![i].wait_start = None]
                      /\ handled' = handled + 1
                      /\ task' = [task EXCEPT ![i].st = "executing",
                                              ![i].deadline = Earlier(mine, outer)]
                      /\ UNCHANGED out
    /\ UNCHANGED <<strategy, args, profile, callsLeft, pc, now, local, log,
                   structs, cfg, boundary, admitted>>

\* The response future of task i is polled: ResponseFuture::poll over
\* tokio::time::Timeout, which polls the downstream future first and the
\* deadline after it.
SvcResponse(i) ==
    /\ profile = "svc"
    /\ task[i].st = "executing"
    /\ \E r \in SvcReadings(i), done \in InnerDone :
         /\ clock' = r
         /\ IF done THEN Finish(i, "Ok", 0, r)
            ELSE IF task[i].deadline # None /\ r >= task[i].deadline
              THEN Finish(i, "Timeout", 0, r)
            ELSE UNCHANGED <<task, out>>
    /\ UNCHANGED <<strategy, args, profile, callsLeft, pc, now, local, log,
                   structs, cfg, boundary, svc, handled, admitted>>

\* -------------------------------------------------- RateLimitRetryService
\* largest clock reading of a response future polled after the last call
Horizon == MaxSvcTime + MaxDeadline

\* The clock readings a response future can be polled at: past MaxSvcTime
\* only when no request still waits for its readiness or its call.
LateReadings ==
    IF \A j \in Threads : task[j].st \notin {"polling", "ready"}
      THEN clock..Horizon ELSE clock..MaxSvcTime

\* The request of task i ends with the result or the ShotError `kind`.
RetryFinish(i, kind) ==
    /\ out' = [out EXCEPT ![i] = [NoOutcome EXCEPT !.kind = kind]]
    /\ task' = [task EXCEPT ![i] = NoTask]

\* RateLimitRetryService::poll_ready under tower's Timeout and the map_err
\* of ManagedThroughputLayer: a RateLimited of the RateLimitService is
\* answered Ready(Ok), everything else is handed on.  The task polls until it
\* is told Ready (ServiceExt::ready) and then calls.
RetryPollReady(i) ==
    /\ profile = "retry"
    /\ task[i].st \in {"idle", "polling"}
    /\ task[i].st = "idle" => callsLeft[i] > 0
    /\ \E r \in clock..MaxSvcTime, inner \in InnerAnswers :
         LET base == RL_PollReady(svc[i], fw, r, inner)
             ret == IF base.ret = "RateLimited" THEN "Ready" ELSE base.ret
         IN /\ clock' = r
            /\ callsLeft' = IF task[i].st = "idle"
                              THEN [callsLeft EXCEPT ![i] = @ - 1] ELSE callsLeft
            /\ fw' = base.limiter
            /\ svc' = [svc EXCEPT ![i] = base.svc]
            /\ admitted' = IF base.strat = "Admit" THEN admitted + 1 ELSE admitted
            /\ IF ret \in {"Ready", "Pending"}
                 THEN /\ task' = [task EXCEPT ![i].st = IF ret = "Ready" THEN "ready"
                                                                         ELSE "polling"]
                      /\ UNCHANGED out
                 ELSE RetryFinish(i, ret)
    /\ UNCHANGED <<strategy, args, profile, pc, now, local, log,
                   sw, tb, gcra, cfg, boundary, handled>>

\* Timeout::call and RateLimitRetryService::call: the RateLimitService goes
\* into the future, a clone of it takes its place, the deadline of max_wait
\* starts; the future has not run yet.
RetryCall(i) ==
    /\ profile = "retry"
    /\ task[i].st = "ready"
    /\ \E r \in clock..MaxSvcTime :
         /\ clock' = r
         /\ task' = [task EXCEPT ![i].st = "retry_ready",
                                 ![i].inner = svc[i],
                                 ![i].deadline = r + cfg.max_wait]
         /\ svc' = [svc EXCEPT ![i] = RateLimitService_new]
    /\ UNCHANGED <<strategy, args, profile, callsLeft, pc, now, local, log,
                   structs, cfg, boundary, handled, admitted, out>>

\* What one poll of the future of RateLimitRetryService::call does at clock
\* reading r to the task t and the strategy f, the downstream handler
\* answering its poll_ready with `inner` and being done or not with a call:
\* loop { match inner.ready().await { Ok(svc) => return svc.call(req).await,
\* Err(RateLimited { retry_after }) => sleep(retry_after).await, Err(err) =>
\* return Err(err) } }
RetryStepTo(t, f, res, strat, calls) ==
    [task |-> t, limiter |-> f, res |-> res, strat |-> strat, calls |-> calls]

\* the match with the RateLimited arm returning the error like any other
RetryMatch_Surfaces(t, b, r, done) ==
    LET t1 == [t EXCEPT !.inner = b.svc, !.wake = None, !.st = "retry_ready"]
    IN CASE b.ret = "Ready" ->
              RetryStepTo([t1 EXCEPT !.st = "retry_call",
                                     !.inner.permit_acquired = FALSE,
                                     !.inner.wait_start = None],
                          b.limiter, IF done THEN "Ok" ELSE "Pending", b.strat, 1)
         [] b.ret = "RateLimited" ->
              RetryStepTo(t1, b.limiter, "RateLimited", b.strat, 0)
         [] b.ret = "Pending" -> RetryStepTo(t1, b.limiter, "Pending", b.strat, 0)
         [] OTHER -> RetryStepTo(t1, b.limiter, b.ret, b.strat, 0)

\* match inner.ready().await { .. }, b being what the poll of ready() gave:
\* Ok calls the service and awaits the response, RateLimited sleeps for
\* retry_after and continues the loop, any other error is returned.
RetryMatch(t, b, r, done) ==
    LET t1 == [t EXCEPT !.inner = b.svc, !.wake = None, !.st = "retry_ready"]
    IN CASE b.ret = "Ready" ->
              RetryStepTo([t1 EXCEPT !.st = "retry_call",
                                     !.inner.permit_acquired = FALSE,
                                     !.inner.wait_start = None],
                          b.limiter, IF done THEN "Ok" ELSE "Pending", b.strat, 1)
         [] b.ret = "RateLimited" ->
              RetryStepTo([t1 EXCEPT !.st = "retry_sleep",
                                     !.wake = r + b.retry_after],
                          b.limiter, "Pending", b.strat, 0)
         [] b.ret = "Pending" -> RetryStepTo(t1, b.limiter, "Pending", b.strat, 0)
         [] OTHER -> RetryStepTo(t1, b.limiter, b.ret, b.strat, 0)

RetryStep(t, f, r, inner, done) ==
    IF t.st = "retry_call"
      THEN RetryStepTo(t, f, IF done THEN "Ok" ELSE "Pending", "none", 0)
    ELSE IF t.st = "retry_sleep" /\ r < t.wake
      THEN RetryStepTo(t, f, "Pending", "none", 0)
    ELSE RetryMatch(t, RL_PollReady(t.inner, f, r, inner), r, done)

\* tower's timeout ResponseFuture over that future: the response is polled
\* first and, when it is Pending, the sleep of max_wait; Elapsed becomes
\* ShotError::Timeout in the map_err closure.
RetryOutcome(t, f, r, inner, done) ==
    [RetryStep(t, f, r, inner, done) EXCEPT
       !.res = IF @ = "Pending" /\ r >= t.deadline THEN "Timeout" ELSE @]

\* The response future of task i is polled.
RetryPoll(i) ==
    /\ profile = "retry"
    /\ task[i].st \in {"retry_ready", "retry_sleep", "retry_call"}
    /\ \E r \in LateReadings, inner \in InnerAnswers, done \in InnerDone :
         \E s \in {RetryOutcome(task[i], fw, r, inner, done)} :
            /\ clock' = r
            /\ fw' = s.limiter
            /\ handled' = handled + s.calls
            /\ admitted' = IF s.strat = "Admit" THEN admitted + 1 ELSE admitted
            /\ IF s.res = "Pending"
                 THEN /\ task' = [task EXCEPT ![i] = s.task]
                      /\ UNCHANGED out
                 ELSE RetryFinish(i, s.res)
    /\ UNCHANGED <<strategy, args, profile, callsLeft, pc, now, local, log,
                   sw, tb, gcra, cfg, boundary, svc>>

\* a poll of the response future at a later clock reading than the last one
RetryPollLater(i) == RetryPoll(i) /\ clock' > clock

\* ------------------------------------------------------------- ShotError
Timeout == BoxError("ShotError", "Timeout", Duration(0, 0), "")
Overloaded == BoxError("ShotError", "Overloaded", Duration(0, 0), "")
RateLimited(retry_after) == BoxError("ShotError", "RateLimited", retry_after, "")
Inner(msg) == BoxError("ShotError", "Inner", Duration(0, 0), msg)

\* tower::timeout::error::Elapsed and tower::load_shed::error::Overloaded
\* with their Display texts
Elapsed == BoxError("Elapsed", "none", Duration(0, 0), "request timed out")
LoadShedOverloaded == BoxError("Overloaded", "none", Duration(0, 0), "service overloaded")

\* err.to_string() of an error that is no ShotError
Display(e) == e.msg

\* the closure of ManagedThroughputLayer::layer's map_err
MapErr_Throughput(err) ==
    IF err.type = "Elapsed" THEN Timeout
    ELSE IF err.type = "ShotError" THEN err
    ELSE Inner(Display(err))

\* a closure that knows the platform's errors only
MapErr_Latency_Wraps(err) ==
    IF err.type = "Elapsed" THEN Timeout
    ELSE IF err.type = "Overloaded" THEN Overloaded
    ELSE Inner(Display(err))

\* the closure of ManagedLatencyLayer::layer's MapErr
MapErr_Latency(err) ==
    IF err.type = "Elapsed" THEN Timeout
    ELSE IF err.type = "Overloaded" THEN Overloaded
    ELSE IF err.type = "ShotError" THEN err
    ELSE Inner(Display(err))

\* impl IntoResponse for ShotError: the status and the Retry-After header
IntoResponse(e) ==
    CASE e.kind = "Overloaded" -> [status |-> 503, retry_after |-> None]
      [] e.kind = "Timeout" -> [status |-> 408, retry_after |-> None]
      [] e.kind = "RateLimited" ->
           [status |-> 429, retry_after |-> Max(e.retry_after.secs, 1)]
      [] e.kind = "Inner" -> [status |-> 500, retry_after |-> None]

\* An error reaches the outermost layer of the managed stack and its closure
\* turns it into what the caller sees.
MapErr ==
    /\ profile = "boundary"
    /\ boundary.stage = "raised"
    /\ boundary' = [boundary EXCEPT
                      !.stage = "seen",
                      !.seen = IF cfg.stack = "ManagedThroughputLayer"
                                 THEN MapErr_Throughput(boundary.err)
                                 ELSE MapErr_Latency(boundary.err)]
    /\ UNCHANGED <<clock, strategy, args, profile, callsLeft, pc, now, local, log,
                   structs, cfg, svc, task, handled, admitted, out>>

\* The caller, an axum handler, turns the error into its HTTP response.
Respond ==
    /\ profile = "boundary"
    /\ boundary.stage = "seen"
    /\ boundary' = [boundary EXCEPT !.stage = "responded",
                                    !.response = IntoResponse(boundary.seen)]
    /\ UNCHANGED <<clock, strategy, args, profile, callsLeft, pc, now, local, log,
                   structs, cfg, svc, task, handled, admitted, out>>

\* ---------------------------------------------------------- specification
Capacities == 1..MaxCapacity
Periods == 1..MaxPeriod
Increments == 1..MaxCapacity

\* The strategy under test is built from any capacity and period; the other
\* three structs are built once and never touched.
Construct(s, capacity, increment, period) ==
    /\ fw = IF s = "FixedWindow" THEN FixedWindow_new(capacity, period)
                                 ELSE FixedWindow_new(1, 1)
    /\ sw = IF s = "SlidingWindow" THEN SlidingWindow_new(capacity, period)
                                   ELSE SlidingWindow_new(1, 1)
    /\ tb = IF s = "TokenBucket" THEN TokenBucket_new(capacity, increment, period)
                                 ELSE TokenBucket_new(1, 1, 1)
    /\ gcra = IF s = "Gcra" THEN Gcra_with_clock(capacity, period)
                            ELSE Gcra_with_clock(1, 1)

\* "seq": thread 1 makes up to MaxCalls calls, one after the other.
\* "par": each of the first n threads makes one call.
CallPlans ==
    {[profile |-> "seq", calls |-> [t \in Threads |-> IF t = 1 THEN MaxCalls ELSE 0]]}
    \cup {[profile |-> "par", calls |-> [t \in Threads |-> IF t <= n THEN 1 ELSE 0]] :
            n \in 2..NumThreads}

InitOver(periods) ==
    /\ clock = 0
    /\ strategy \in Strategies
    /\ \E plan \in CallPlans :
         /\ profile = plan.profile
         /\ callsLeft = plan.calls
    /\ pc = [t \in Threads |-> "idle"]
    /\ now = [t \in Threads |-> 0]
    /\ local = [t \in Threads |-> LocalsOf(strategy)]
    /\ log = << >>
    /\ NoTower
    /\ \E capacity \in Capacities, period \in periods :
         \E increment \in (IF strategy = "TokenBucket" THEN Increments ELSE {1}) :
            /\ args = [capacity |-> capacity, increment |-> increment, period |-> period]
            /\ Construct(strategy, capacity, increment, period)

Init == InitOver(Periods)

Step(t) ==
    \/ ReadClock(t)
    \/ FW_Process(t)
    \/ SW_Process(t)
    \/ TB_Process(t)
    \/ GC_Process(t)

Next == \E t \in Threads : Step(t)

Spec == Init /\ [][Next]_vars

\* One caller: thread 1 calls process() again and again.  A strong
\* compare_exchange cannot fail without a second thread, so the two
\* lost-the-race reloads are no steps of a sequential caller.
InitSeq == Init /\ profile = "seq"

NextSeq ==
    \/ ReadClock(1)
    \/ FW_LoadExpires(1) \/ FW_CasExpires(1) \/ FW_StoreRemaining(1)
    \/ FW_FetchLoad(1) \/ FW_FetchCas(1)
    \/ SW_LoadWindowStart(1) \/ SW_CasWindowStart(1) \/ SW_RotateLoadCurrent(1)
    \/ SW_StorePrevious(1) \/ SW_StoreCurrent(1) \/ SW_LoadPrevious(1)
    \/ SW_LoadCurrent(1) \/ SW_FetchAdd(1)
    \/ TB_Process(1)
    \/ GC_Process(1)

SpecSeq == InitSeq /\ [][NextSeq]_vars

\* One caller of a Gcra whose period need not be a multiple of its limit
InitGcraSeq ==
    /\ InitOver(1..MaxRatePeriod)
    /\ profile = "seq"
    /\ strategy = "Gcra"

NextGcraSeq == ReadClock(1) \/ GC_Process(1)

SpecGcraSeq == InitGcraSeq /\ [][NextGcraSeq]_vars

\* Concurrent callers of one strategy, one process() call per thread.
InitFWPar == Init /\ profile = "par" /\ strategy = "FixedWindow"
NextFW == \E t \in Threads : ReadClock(t) \/ FW_Process(t)
SpecFWPar == InitFWPar /\ [][NextFW]_vars

\* Concurrent callers of one FixedWindow whose clock readings lie windows
\* apart: a thread may be delayed for long between reading the clock and its
\* next step.
InitFWLag ==
    /\ clock = 0
    /\ strategy = "FixedWindow"
    /\ profile = "lag"
    /\ callsLeft = [t \in Threads |-> 1]
    /\ pc = [t \in Threads |-> "idle"]
    /\ now = [t \in Threads |-> 0]
    /\ local = [t \in Threads |-> LocalsOf(strategy)]
    /\ log = << >>
    /\ NoTower
    /\ \E capacity \in Capacities, period \in Periods :
         /\ args = [capacity |-> capacity, increment |-> 1, period |-> period]
         /\ Construct(strategy, capacity, 1, period)

SpecFWLag == InitFWLag /\ [][NextFW]_vars

InitSWPar == Init /\ profile = "par" /\ strategy = "SlidingWindow"
NextSW == \E t \in Threads : ReadClock(t) \/ SW_Process(t)
SpecSWPar == InitSWPar /\ [][NextSW]_vars

InitTBPar == Init /\ profile = "par" /\ strategy = "TokenBucket"
NextTB == \E t \in Threads : ReadClock(t) \/ TB_Process(t)
SpecTBPar == InitTBPar /\ [][NextTB]_vars

\* Concurrent callers of one TokenBucket, the first of them calling twice
InitTBRefill ==
    /\ clock = 0
    /\ strategy = "TokenBucket"
    /\ profile = "par"
    /\ callsLeft = [t \in Threads |-> IF t = 1 THEN 2 ELSE 1]
    /\ pc = [t \in Threads |-> "idle"]
    /\ now = [t \in Threads |-> 0]
    /\ local = [t \in Threads |-> LocalsOf(strategy)]
    /\ log = << >>
    /\ NoTower
    /\ \E capacity \in Capacities, increment \in Increments, period \in Periods :
         /\ args = [capacity |-> capacity, increment |-> increment, period |-> period]
         /\ Construct(strategy, capacity, increment, period)

\* every thread that is in a call, or has one to make, goes on running
SpecTBRefill ==
    /\ InitTBRefill
    /\ [][NextTB]_vars
    /\ \A t \in Threads : WF_vars(ReadClock(t) \/ TB_Process(t))

InitGcraPar == Init /\ profile = "par" /\ strategy = "Gcra"
NextGcra == \E t \in Threads : ReadClock(t) \/ GC_Process(t)
SpecGcraPar == InitGcraPar /\ [][NextGcra]_vars

\* Concurrent callers of any strategy built from any Duration, the zero
\* Duration included.
InitAnyDuration == InitOver(0..MaxPeriod) /\ profile = "par"
SpecAnyDuration == InitAnyDuration /\ [][Next]_vars

\* One caller of a SlidingWindow: a burst until the first rejection at clock
\* value 0, one sleep to a clock value of the following window, a second burst
\* until the next rejection.
InitSWBurst ==
    /\ clock = 0
    /\ strategy = "SlidingWindow"
    /\ profile = "burst"
    /\ pc = [t \in Threads |-> "idle"]
    /\ now = [t \in Threads |-> 0]
    /\ local = [t \in Threads |-> LocalsOf(strategy)]
    /\ log = << >>
    /\ NoTower
    /\ \E capacity \in 1..MaxBurstCapacity, period \in 1..MaxBurstPeriod :
         /\ args = [capacity |-> capacity, increment |-> 1, period |-> period]
         /\ callsLeft = [t \in Threads |-> IF t = 1 THEN 2 * (capacity + 1) ELSE 0]
         /\ Construct(strategy, capacity, 1, period)

NextSWBurst ==
    \/ ReadClock(1)
    \/ SW_LoadWindowStart(1) \/ SW_CasWindowStart(1) \/ SW_RotateLoadCurrent(1)
    \/ SW_StorePrevious(1) \/ SW_StoreCurrent(1) \/ SW_LoadPrevious(1)
    \/ SW_LoadCurrent(1) \/ SW_FetchAdd(1)

SpecSWBurst == InitSWBurst /\ [][NextSWBurst]_vars

\* One caller of a TokenBucket: it empties the full bucket at clock value 0,
\* then sleeps and calls until rejected, up to MaxSleeps times.
InitTBDrain ==
    /\ clock = 0
    /\ strategy = "TokenBucket"
    /\ profile = "drain"
    /\ pc = [t \in Threads |-> "idle"]
    /\ now = [t \in Threads |-> 0]
    /\ local = [t \in Threads |-> LocalsOf(strategy)]
    /\ log = << >>
    /\ NoTower
    /\ \E capacity \in Capacities, increment \in Increments, period \in 1..MaxDrainPeriod :
         /\ args = [capacity |-> capacity, increment |-> increment, period |-> period]
         /\ callsLeft = [t \in Threads |-> IF t = 1 THEN 2 * (capacity + 1) + 1 ELSE 0]
         /\ Construct(strategy, capacity, increment, period)

NextTBDrain == ReadClock(1) \/ TB_Process(1)

SpecTBDrain == InitTBDrain /\ [][NextTBDrain]_vars

\* The stacks a RateLimitLayer can be built into.
\* RateLimitLayer::new(..).with_fail_fast(..).with_timeout(..)
RateLimitLayers ==
    {[stack |-> "RateLimitLayer", fail_fast |-> ff, timeout |-> d,
      shed |-> FALSE, max_wait |-> None, handler |-> "any"] :
        ff \in BOOLEAN, d \in {None} \cup (1..MaxDeadline)}

\* make_timeout_svc: RateLimitLayer::new(strategy).with_timeout(timeout)
make_timeout_svc(timeout, svc_) ==
    [stack |-> "make_timeout_svc", fail_fast |-> FALSE, timeout |-> timeout,
     shed |-> FALSE, max_wait |-> None, handler |-> svc_]

\* make_latency_svc: map_err(map_overloaded), load_shed(),
\* RateLimitLayer::new(strategy).with_fail_fast(true).with_timeout(timeout)
make_latency_svc(timeout, svc_) ==
    [stack |-> "make_latency_svc", fail_fast |-> TRUE, timeout |-> timeout,
     shed |-> TRUE, max_wait |-> None, handler |-> svc_]

\* ManagedLatencyLayer::layer: MapErr, timeout(max_wait), load_shed(),
\* RateLimitService::new(inner, limiter)
ManagedLatencyLayer(max_wait, inner) ==
    [stack |-> "ManagedLatencyLayer", fail_fast |-> FALSE, timeout |-> None,
     shed |-> TRUE, max_wait |-> max_wait, handler |-> inner]

\* ManagedThroughputLayer::layer: map_err, timeout(max_wait),
\* RateLimitRetryLayer, RateLimitService::new(..).with_fail_fast(true)
ManagedThroughputLayer(max_wait, inner) ==
    [stack |-> "ManagedThroughputLayer", fail_fast |-> TRUE, timeout |-> None,
     shed |-> FALSE, max_wait |-> max_wait, handler |-> inner]

Disciplines ==
    {make_timeout_svc(d, h) : d \in 1..MaxDeadline, h \in Handlers}
    \cup {make_latency_svc(d, h) : d \in 1..MaxDeadline, h \in Handlers}
    \cup {ManagedLatencyLayer(d, h) : d \in 1..MaxDeadline, h \in Handlers}

RECURSIVE Total(_, _)
Total(f, n) == IF n = 0 THEN 0 ELSE f[n] + Total(f, n - 1)

\* the ways MaxRequests requests are sent by the tasks
Workloads == {w \in [Threads -> 0..MaxRequests] : Total(w, NumThreads) = MaxRequests}

\* one request per task
OneEach == {[t \in Threads |-> 1]}

\* Every task owns one service of the stack (a clone: fresh request state),
\* all of them share one FixedWindow, and the tasks send the requests of
\* one of the workloads.
InitTower(stacks, workloads) ==
    /\ clock = 0
    /\ strategy = "FixedWindow"
    /\ profile = "svc"
    /\ callsLeft \in workloads
    /\ pc = [t \in Threads |-> "idle"]
    /\ now = [t \in Threads |-> 0]
    /\ local = [t \in Threads |-> LocalsOf(strategy)]
    /\ log = << >>
    /\ \E capacity \in Capacities, period \in Periods :
         /\ args = [capacity |-> capacity, increment |-> 1, period |-> period]
         /\ Construct(strategy, capacity, 1, period)
    /\ cfg \in stacks
    /\ svc = [t \in Threads |-> RateLimitService_new]
    /\ task = [t \in Threads |-> NoTask]
    /\ handled = 0
    /\ admitted = 0
    /\ out = [t \in Threads |-> NoOutcome]
    /\ boundary = NoBoundary

NextTower == \E i \in Threads : SvcPollReady(i) \/ SvcCall(i) \/ SvcResponse(i)

InitService == InitTower(RateLimitLayers, Workloads)
SpecService == InitService /\ [][NextTower]_vars

\* the tasks also take clones of each other's services between requests
NextClone == NextTower \/ \E i, j \in Threads : SvcClone(i, j)
SpecClone == InitService /\ [][NextClone]_vars

InitDiscipline == InitTower(Disciplines, OneEach)
SpecDiscipline == InitDiscipline /\ [][NextTower]_vars

\* RateLimitService::new(inner, limiter): the service on its own, waiting
\* mode, no deadline
RateLimitService_bare(inner) ==
    [stack |-> "RateLimitService", fail_fast |-> FALSE, timeout |-> None,
     shed |-> FALSE, max_wait |-> None, handler |-> inner]

\* the requests sent through the one service of test_poll_ready_backpressure:
\* more than any capacity admits at once
BurstRequests == MaxCapacity + 2

\* One service around a MockService and a FixedWindow, SlidingWindow or
\* TokenBucket (one token per period) of some capacity and period; the first
\* task owns it and sends BurstRequests requests one after the other.
InitBackpressure ==
    /\ clock = 0
    /\ strategy \in {"FixedWindow", "SlidingWindow", "TokenBucket"}
    /\ profile = "svc"
    /\ callsLeft = [t \in Threads |-> IF t = 1 THEN BurstRequests ELSE 0]
    /\ pc = [t \in Threads |-> "idle"]
    /\ now = [t \in Threads |-> 0]
    /\ local = [t \in Threads |-> LocalsOf(strategy)]
    /\ log = << >>
    /\ \E capacity \in Capacities, period \in Periods :
         /\ args = [capacity |-> capacity, increment |-> 1, period |-> period]
         /\ Construct(strategy, capacity, 1, period)
    /\ cfg = RateLimitService_bare("MockService")
    /\ svc = [t \in Threads |-> RateLimitService_new]
    /\ task = [t \in Threads |-> NoTask]
    /\ handled = 0
    /\ admitted = 0
    /\ out = [t \in Threads |-> NoOutcome]
    /\ boundary = NoBoundary

\* a poll of the readiness at a later clock reading: time passes, and the
\* sleep or the wake_by_ref of a Pending poll_ready has the task polled again
SvcPollLater(i) == SvcPollReady(i) /\ clock' > clock

\* A task that was told Ready calls, a response future is polled until it is
\* done, and a waiting task is polled again as time passes.
SpecBackpressure ==
    /\ InitBackpressure
    /\ [][NextTower]_vars
    /\ \A i \in Threads : /\ WF_vars(SvcCall(i))
                          /\ WF_vars(SvcResponse(i))
                          /\ WF_vars(SvcPollLater(i))

\* tasks sending their requests through clones of a ManagedThroughputLayer
\* stack, one request each; every task takes its next step, and the clock
\* moves on between the polls of a future that stays pending
InitThroughput ==
    /\ clock = 0
    /\ strategy = "FixedWindow"
    /\ profile = "retry"
    /\ callsLeft \in OneEach
    /\ pc = [t \in Threads |-> "idle"]
    /\ now = [t \in Threads |-> 0]
    /\ local = [t \in Threads |-> LocalsOf(strategy)]
    /\ log = << >>
    /\ \E capacity \in Capacities, period \in Periods :
         /\ args = [capacity |-> capacity, increment |-> 1, period |-> period]
         /\ Construct(strategy, capacity, 1, period)
    /\ cfg \in {ManagedThroughputLayer(d, h) : d \in 1..MaxDeadline, h \in Handlers}
    /\ svc = [t \in Threads |-> RateLimitService_new]
    /\ task = [t \in Threads |-> NoTask]
    /\ handled = 0
    /\ admitted = 0
    /\ out = [t \in Threads |-> NoOutcome]
    /\ boundary = NoBoundary

RetryTask(i) == RetryPollReady(i) \/ RetryCall(i) \/ RetryPoll(i)

NextThroughput == \E i \in Threads : RetryTask(i)

SpecThroughput ==
    /\ InitThroughput
    /\ [][NextThroughput]_vars
    /\ \A i \in Threads : WF_vars(RetryTask(i))
    /\ \A i \in Threads : WF_vars(RetryPollLater(i))

\* the retry_after values an error may carry
SubSecs == {0, 1, 999999999}
Durations == {Duration(secs, nanos) : secs \in 0..MaxSecs, nanos \in SubSecs}

\* Display texts of downstream errors of other types
Messages == {"connection refused", "service overloaded"}

ShotErrors ==
    {Timeout, Overloaded} \cup {RateLimited(d) : d \in Durations}
                          \cup {Inner(m) : m \in Messages}

\* What can reach the closure of a managed stack, and from where: Elapsed
\* from its Timeout layer, Overloaded from its LoadShed layer when it has
\* one, and whatever the downstream handler fails with.
Raised(stack) ==
    {[origin |-> "timeout", err |-> Elapsed]}
    \cup (IF stack = "ManagedLatencyLayer"
           THEN {[origin |-> "load_shed", err |-> LoadShedOverloaded]} ELSE {})
    \cup {[origin |-> "downstream", err |-> e] :
            e \in ShotErrors \cup {Elapsed, LoadShedOverloaded}
                  \cup {BoxError("Other", "none", Duration(0, 0), m) : m \in Messages}}

InitBoundary ==
    /\ clock = 0
    /\ strategy = "FixedWindow"
    /\ profile = "boundary"
    /\ callsLeft = [t \in Threads |-> 0]
    /\ pc = [t \in Threads |-> "idle"]
    /\ now = [t \in Threads |-> 0]
    /\ local = [t \in Threads |-> LocalsOf(strategy)]
    /\ log = << >>
    /\ args = [capacity |-> 1, increment |-> 1, period |-> 1]
    /\ Construct(strategy, 1, 1, 1)
    /\ cfg \in {ManagedThroughputLayer(MaxDeadline, "any"),
                ManagedLatencyLayer(MaxDeadline, "any")}
    /\ svc = [t \in Threads |-> RateLimitService_new]
    /\ task = [t \in Threads |-> NoTask]
    /\ handled = 0
    /\ admitted = 0
    /\ out = [t \in Threads |-> NoOutcome]
    /\ \E e \in Raised(cfg.stack) :
         boundary = [NoBoundary EXCEPT !.stage = "raised", !.origin = e.origin,
                                       !.err = e.err]

NextBoundary == MapErr \/ Respond

SpecBoundary == InitBoundary /\ [][NextBoundary]_vars

\* ------------------------------------------------- history of the calls
Calls == 1..Len(log)
Admitted(S) == Cardinality({i \in S : log[i].res = "Admit"})
Admits == Admitted(Calls)
\* every thread is back from its last call
AllReturned == \A t \in Threads : pc[t] = "idle" /\ callsLeft[t] = 0
\* every call so far, returned or not, read the same clock value
Frozen ==
    /\ \A i \in Calls : log[i].now = clock
    /\ \A t \in Threads : pc[t] # "idle" => now[t] = clock
\* calls i .. i + n - 1 were all admitted at clock reading t0
BurstAt(i, n, t0) ==
    /\ i + n - 1 <= Len(log)
    /\ \A j \in i..(i + n - 1) : log[j].res = "Admit" /\ log[j].now = t0

\* ------------------------------------------------------------------ claims

\* C1: FixedWindow, one caller, any non-decreasing clock readings: in every
\* aligned window [k*interval, (k+1)*interval) at most capacity calls are
\* admitted.
C1_AlignedWindowCap ==
    (strategy = "FixedWindow" /\ profile = "seq") =>
        \A k \in 0..MaxTime :
            Admitted({i \in Calls : log[i].now \div fw.interval = k}) <= fw.capacity

\* C2: FixedWindow, N threads with one call each while the clock stays inside
\* the first window: never more than capacity calls are admitted, and once all
\* have returned exactly min(N, capacity) were.
C2_FixedWindowParallelCap ==
    (strategy = "FixedWindow" /\ profile = "par" /\ clock < fw.interval) =>
        /\ Admits <= fw.capacity
        /\ AllReturned => Admits = Min(Len(log), fw.capacity)

C2_Witness ==
    /\ strategy = "FixedWindow" /\ profile = "par" /\ clock < fw.interval
    /\ AllReturned
    /\ Len(log) > fw.capacity
    /\ Admits = fw.capacity

\* C3: SlidingWindow, N threads with one call each while the clock stays
\* inside the first window: never more than capacity calls are admitted, and
\* once all have returned exactly min(N, capacity) were.
C3_SlidingWindowParallelCap ==
    (strategy = "SlidingWindow" /\ profile = "par" /\ clock < sw.period_ns) =>
        /\ Admits <= sw.capacity
        /\ AllReturned => Admits = Min(Len(log), sw.capacity)

\* C4: TokenBucket, N threads with one call each against the full bucket and
\* a frozen clock: never more than capacity calls are admitted (no token is
\* spent twice), and once all have returned exactly min(N, capacity) were.
C4_TokenBucketParallelCap ==
    (strategy = "TokenBucket" /\ profile = "par" /\ Frozen) =>
        /\ Admits <= args.capacity
        /\ AllReturned => Admits = Min(Len(log), args.capacity)

\* C5: Gcra with period divisible by limit, N threads with one call each and
\* a frozen clock: never more than limit calls are admitted, and once all have
\* returned exactly min(N, limit) were.
C5_GcraParallelCap ==
    (strategy = "Gcra" /\ profile = "par" /\ Frozen
       /\ args.period % args.capacity = 0) =>
        /\ Admits <= args.capacity
        /\ AllReturned => Admits = Min(Len(log), args.capacity)

C5_Witness ==
    /\ strategy = "Gcra" /\ profile = "par" /\ Frozen
    /\ args.period % args.capacity = 0
    /\ AllReturned
    /\ Len(log) > args.capacity
    /\ Admits = args.capacity

\* C6: FixedWindow, SlidingWindow and TokenBucket, one caller, frozen clock:
\* the first capacity calls are admitted and every later call is rejected.
C6_SequentialBurstCap ==
    (profile = "seq" /\ strategy \in {"FixedWindow", "SlidingWindow", "TokenBucket"}
       /\ Frozen) =>
        \A i \in Calls :
            log[i].res = IF i <= args.capacity THEN "Admit" ELSE "Reject"

C6_Witness ==
    /\ profile = "seq" /\ strategy = "TokenBucket" /\ Frozen
    /\ args.capacity = MaxCapacity
    /\ Len(log) = MaxCalls
    /\ Admits = args.capacity

\* C7: Gcra, one caller, any limit and period: of the back-to-back calls made
\* at the first clock reading exactly the first `limit` are admitted; after the
\* rejected call limit + 1 and a clock advance of d <= period, exactly
\* floor(d / emission_interval) further calls are admitted.
C7_GcraBurstThenRate ==
    (strategy = "Gcra" /\ profile = "seq" /\ Len(log) >= 1) =>
        LET limit == args.capacity
            t0 == log[1].now
            burst == {i \in Calls : \A j \in 1..i : log[j].now = t0}
            later(d) == {i \in Calls : /\ i > limit + 1
                                       /\ \A j \in (limit + 2)..i : log[j].now = t0 + d}
        IN /\ \A i \in burst : log[i].res = IF i <= limit THEN "Admit" ELSE "Reject"
           /\ \A d \in 0..args.period :
                ((limit + 1) \in burst /\ gcra.emission_interval_ns > 0) =>
                    \A i \in later(d) :
                        log[i].res = IF i - (limit + 1) <= d \div gcra.emission_interval_ns
                                       THEN "Admit" ELSE "Reject"

\* C8: TokenBucket, one caller: for all clock values t1 <= t2 the number of
\* calls admitted with a reading in [t1, t2] is at most
\* capacity + floor(increment * (t2 - t1) / period).
C8_TokenBucketBurstPlusRate ==
    (strategy = "TokenBucket" /\ profile = "seq") =>
        \A t1 \in 0..MaxTime : \A t2 \in t1..MaxTime :
            Admitted({i \in Calls : t1 <= log[i].now /\ log[i].now <= t2})
                <= args.capacity + (args.increment * (t2 - t1)) \div args.period

C8_Witness ==
    /\ strategy = "TokenBucket" /\ profile = "seq"
    /\ \E t1 \in 0..MaxTime : \E t2 \in (t1 + 1)..MaxTime :
         LET n == Admitted({i \in Calls : t1 <= log[i].now /\ log[i].now <= t2})
         IN /\ n > args.capacity
            /\ n = args.capacity + (args.increment * (t2 - t1)) \div args.period

\* C9: each strategy, one caller: after capacity back-to-back admits at clock
\* value t0, the next call, made at exactly t0 + period, is admitted.
C9_RecoveryAfterPeriod ==
    profile = "seq" =>
        \A i \in Calls :
            (/\ i + args.capacity <= Len(log)
             /\ BurstAt(i, args.capacity, log[i].now)
             /\ log[i + args.capacity].now = log[i].now + args.period)
            => log[i + args.capacity].res = "Admit"

\* C10: FixedWindow and SlidingWindow, one caller: after capacity back-to-back
\* admits at t0, a call at t0 + k * period with k >= 2 is admitted and, when it
\* returns, the stored boundary describes the window containing its `now`:
\* FixedWindow expires > now; SlidingWindow window_start <= now <
\* window_start + period with previous_count = 0.
C10_IdleCall(i) ==
    /\ i + args.capacity = Len(log)
    /\ pc[1] = "idle"
    /\ BurstAt(i, args.capacity, log[i].now)
    /\ \E k \in 2..MaxTime : log[Len(log)].now = log[i].now + k * args.period

C10_IdleReanchoring ==
    (profile = "seq" /\ strategy \in {"FixedWindow", "SlidingWindow"}) =>
        \A i \in Calls :
            C10_IdleCall(i) =>
                LET last == log[Len(log)]
                IN /\ last.res = "Admit"
                   /\ strategy = "FixedWindow" => fw.expires > last.now
                   /\ strategy = "SlidingWindow" =>
                        /\ sw.current_window_start <= last.now
                        /\ last.now < sw.current_window_start + sw.period_ns
                        /\ sw.previous_count = 0

C10_Witness ==
    /\ profile = "seq" /\ strategy = "FixedWindow"
    /\ args.capacity = MaxCapacity
    /\ \E i \in Calls : C10_IdleCall(i) /\ log[i].now > 0

\* C11: FixedWindow, one caller: every half-open span [t, t + interval) of
\* clock values, aligned or not, holds at most 2 * capacity admitted calls.
C11_BoundaryBurstBound ==
    (strategy = "FixedWindow" /\ profile = "seq") =>
        \A t \in 0..MaxTime :
            Admitted({i \in Calls : t <= log[i].now /\ log[i].now < t + fw.interval})
                <= 2 * fw.capacity

C11_Witness ==
    /\ strategy = "FixedWindow" /\ profile = "seq"
    /\ fw.capacity = MaxCapacity /\ fw.interval >= 2
    /\ \E t \in 1..MaxTime :
         /\ t % fw.interval # 0
         /\ Admitted({i \in Calls : t <= log[i].now /\ log[i].now < t + fw.interval})
              = 2 * fw.capacity

\* C12: SlidingWindow, one caller: when the first window admitted capacity
\* calls and the caller, at e ns (0 <= e < period) into the next window, calls
\* until rejected, the rejection finds exactly ceil(capacity * e / period)
\* calls admitted in that window, and never are there more.
C12_SecondBurst == {i \in Calls : log[i].now >= args.period}

C12_NoDoubleBurst ==
    (strategy = "SlidingWindow" /\ profile = "burst" /\ clock >= args.period
       /\ Admitted({i \in Calls : log[i].now = 0}) = args.capacity) =>
        LET e == clock - args.period
            quota == (args.capacity * e + args.period - 1) \div args.period
        IN /\ Admitted(C12_SecondBurst) <= quota
           /\ (pc[1] = "idle" /\ log[Len(log)].res = "Reject")
                => Admitted(C12_SecondBurst) = quota

\* C13: TokenBucket, one caller: the full bucket is emptied at clock value 0;
\* as long as every later call was rejected, units and last_update_ns are
\* what the last admit left; and when only rejected calls lie between 0 and
\* the clock value d, the calls made at d are admitted exactly
\* min(capacity, floor(d * increment / period)) times before the next Reject.
C13_OnlyRejectsBefore(d) == \A i \in Calls : (0 < log[i].now /\ log[i].now < d) => log[i].res = "Reject"

C13_FractionalRefill ==
    (strategy = "TokenBucket" /\ profile = "drain" /\ clock > 0
       /\ C13_OnlyRejectsBefore(clock)) =>
        LET here == {i \in Calls : log[i].now = clock}
            quota == Min(args.capacity, (clock * args.increment) \div args.period)
        IN /\ Admitted(here) <= quota
           /\ (pc[1] = "idle" /\ Admitted(here) = 0)
                => (tb.units = Units(0, 0) /\ tb.last_update_ns = 0)
           /\ (pc[1] = "idle" /\ here # {} /\ log[Len(log)].res = "Reject")
                => Admitted(here) = quota

\* C14: every strategy, every configuration that can be constructed (a zero
\* interval or period included), concurrent callers: no process() call ends
\* in a panic; each returns Admit or Reject.
C14_NoPanic == \A i \in Calls : log[i].res \in {"Admit", "Reject"}

\* C15: each strategy, one caller: every Reject carries retry_after > 0, and
\* the caller's next call, when made at a clock value earlier than
\* now + retry_after, is rejected as well.
C15_RetryHintLowerBound ==
    profile = "seq" =>
        \A i \in Calls :
            log[i].res = "Reject" =>
                /\ log[i].retry_after > 0
                /\ (i < Len(log) /\ log[i + 1].now < log[i].now + log[i].retry_after)
                     => log[i + 1].res = "Reject"

\* every poll_ready a service can be given next: the instance, the clock
\* reading and the downstream handler's answer
NextPolls == Threads \X (clock..MaxSvcTime) \X InnerAnswers

PollOf(q) == RL_PollReady(svc[q[1]], fw, q[2], q[3])

Holders == {i \in Threads : svc[i].permit_acquired}

\* C16: RateLimitService, any sequence of poll_ready and call in which a call
\* follows a Ready(Ok): process() is invoked only while permit_acquired is
\* false, a poll_ready of an instance that holds a permit takes none and
\* leaves the strategy alone, a call leaves permit_acquired false, and the
\* downstream handler has been invoked once per Admit that is no longer
\* held: never more often than the strategy admitted.
C16_PermitConsumedOnce ==
    profile = "svc" =>
        /\ handled + Cardinality(Holders) = admitted
        /\ \A i \in Threads : task[i].st = "executing" => ~svc[i].permit_acquired
        /\ \A q \in NextPolls :
             /\ PollOf(q).strat # "none" => ~svc[q[1]].permit_acquired
             /\ svc[q[1]].permit_acquired =>
                  /\ PollOf(q).limiter = fw
                  /\ PollOf(q).svc.permit_acquired

\* one permit was consumed by a call and another is held by an instance that
\* was told Ready and has not called yet
C16_Witness ==
    /\ profile = "svc"
    /\ handled >= 1
    /\ \E i \in Threads : svc[i].permit_acquired /\ task[i].st = "ready"

\* every task has sent its requests and has its answer
AllResolved == \A i \in Threads : callsLeft[i] = 0 /\ task[i].st = "idle"

Failed(kind) == {i \in Threads : out[i].kind = kind}

\* C17: clones sharing one FixedWindow of capacity C, N > C requests, one per
\* clone, over a MockService, all within the first window: exactly C reach
\* the downstream handler under every discipline, the other N - C end with
\* Timeout under the throughput discipline and with Overloaded under the
\* latency discipline; and with C = 1, once one instance is admitted no
\* poll_ready of another instance within the window answers Ready.
C17_SharedCapacity ==
    (profile = "svc" /\ cfg.handler = "MockService"
       /\ args.capacity < NumThreads /\ clock < args.period) =>
        /\ AllResolved =>
             /\ handled = args.capacity
             /\ cfg.stack = "make_timeout_svc" =>
                  Cardinality(Failed("Timeout")) = NumThreads - args.capacity
             /\ cfg.stack \in {"make_latency_svc", "ManagedLatencyLayer"} =>
                  Cardinality(Failed("Overloaded")) = NumThreads - args.capacity
        /\ (args.capacity = 1 /\ admitted = 1) =>
             \A q \in NextPolls :
                 (q[2] < args.period /\ ~svc[q[1]].permit_acquired)
                     => PollOf(q).ret # "Ready"

\* C18: RateLimitService with a deadline D: while a request waits for
\* readiness or for its call, wait_start is the time of the request's first
\* poll_ready, whatever the downstream handler answered at that poll, and no
\* request ends successfully later than D after its first poll_ready.
C18_DeadlineFromFirstPoll ==
    (profile = "svc" /\ cfg.timeout # None) =>
        \A i \in Threads :
            /\ task[i].st \in {"polling", "ready"} =>
                 svc[i].wait_start = task[i].first_poll
            /\ out[i].kind = "Ok" => out[i].waited <= cfg.timeout

\* C19: in every poll_ready a RateLimitService can be given, the answer is
\* Err(RateLimited) exactly when fail_fast is set and the strategy rejected
\* in that poll; the error then carries the retry_after the strategy gave, no
\* sleep was created and none is stored; without fail_fast no poll and no
\* request ends with RateLimited.
C19_FailFastRejection ==
    profile = "svc" =>
        /\ \A q \in NextPolls :
             /\ PollOf(q).ret = "RateLimited"
                  <=> (cfg.fail_fast /\ PollOf(q).strat = "Reject")
             /\ PollOf(q).ret = "RateLimited" =>
                  /\ PollOf(q).retry_after = FW_ProcessOnce(fw, q[2]).retry_after
                  /\ ~PollOf(q).slept
                  /\ PollOf(q).svc.sleep = None
        /\ \A i \in Threads : out[i].kind = "RateLimited" => cfg.fail_fast

\* a request has ended with RateLimited and a retry_after, under fail_fast,
\* and its instance holds no sleep
C19_Witness ==
    /\ profile = "svc"
    /\ cfg.fail_fast
    /\ \E i \in Threads :
         /\ out[i].kind = "RateLimited"
         /\ out[i].retry_after > 0
         /\ svc[i].sleep = None

LatencyStacks == {"make_latency_svc", "ManagedLatencyLayer"}

\* C20: under the latency discipline (make_latency_svc, ManagedLatencyLayer)
\* a poll_ready in which the strategy rejects leaves the RateLimitService
\* not ready, so that LoadShed answers the call with Overloaded at once and
\* the downstream handler is not reached; no request ends with RateLimited.
C20_LatencyOverloaded ==
    (profile = "svc" /\ cfg.stack \in LatencyStacks) =>
        /\ \A q \in NextPolls :
             PollOf(q).strat = "Reject" => PollOf(q).ret = "Pending"
        /\ \A i \in Threads : out[i].kind # "RateLimited"

\* the futures of RateLimitRetryService::call that are alive
Retrying == {i \in Threads : task[i].st \in {"retry_ready", "retry_sleep", "retry_call"}}

\* every poll such a future can be given next
NextRetryPolls == Retrying \X LateReadings \X InnerAnswers \X InnerDone

RetryOf(q) == RetryStep(task[q[1]], fw, q[2], q[3], q[4])

\* a poll of the future in which its RateLimitService answers RateLimited
Limited(q) ==
    /\ task[q[1]].st = "retry_ready" \/ q[2] >= task[q[1]].wake
    /\ task[q[1]].st # "retry_call"
    /\ RL_PollReady(task[q[1]].inner, fw, q[2], q[3]).ret = "RateLimited"

C21_RetrySafe ==
    profile = "retry" =>
        /\ \A i \in Threads : out[i].kind \in {"none", "Ok", "Timeout", "Inner"}
        /\ handled <= admitted
        /\ \A q \in NextRetryPolls :
             Limited(q) =>
                 /\ RetryOf(q).res = "Pending"
                 /\ RetryOf(q).task.st = "retry_sleep"
                 /\ RetryOf(q).task.wake = q[2] + FW_ProcessOnce(fw, q[2]).retry_after

NextBarePolls ==
    {q \in Threads \X (clock..PatientHorizon) \X InnerAnswers :
        /\ q[2] \in SvcReadings(q[1])
        /\ task[q[1]].st \in {"idle", "polling"}
        /\ task[q[1]].st = "idle" => callsLeft[q[1]] > 0}

BarePollOf(q) == RL_PollReady(svc[q[1]], Limiter, q[2], q[3])

C23_Backpressured ==
    cfg.stack = "RateLimitService" =>
        /\ \A i \in Threads : out[i].kind \in {"none", "Ok"}
        /\ handled + Cardinality(Holders) = admitted
        /\ \A q \in NextBarePolls :
             /\ BarePollOf(q).ret \in {"Pending", "Ready"}
             /\ ProcessOnce(Limiter, q[2]).res = "Reject" => BarePollOf(q).ret = "Pending"
             /\ BarePollOf(q).ret = "Ready" => BarePollOf(q).strat = "Admit"
             /\ task[q[1]].st = "polling" /\ q[2] > task[q[1]].first_poll + args.period
                  => BarePollOf(q).ret = "Ready"

\* C23: a bare RateLimitService (waiting mode, no deadline) around a
\* MockService and a FixedWindow, SlidingWindow or TokenBucket of capacity C
\* and period P: a readiness poll at which the strategy rejects answers
\* Pending and nothing else, Ready is answered only on an Admit, a request
\* that is still waiting when the clock is more than P past its first poll
\* is answered Ready, every waiting request is in the end told Ready and
\* called, and every call reaches the downstream handler: it has handled
\* one request per Admit that is no longer held, and no request fails.
C23_BackpressureRecovery ==
    /\ []C23_Backpressured
    /\ \A i \in Threads : []<>(task[i].st \notin {"polling", "ready"})

\* C requests were admitted and handled, the next one was answered Pending
\* and sleeps, and the clock has not yet reached the end of its sleep
C23_Witness ==
    /\ cfg.stack = "RateLimitService"
    /\ handled = args.capacity
    /\ \E i \in Threads : /\ task[i].st = "polling"
                          /\ svc[i].sleep # None /\ clock < svc[i].sleep
                          /\ ProcessOnce(Limiter, clock).res = "Reject"

C24_CloneOf(i) == RL_Clone(RateLimitService(i))

\* what a step that is a clone of the service of task i by task j leaves alone
C24_CloneStep ==
    \A i, j \in Threads :
        SvcClone(i, j) =>
            /\ svc'[j].sleep = None /\ ~svc'[j].permit_acquired
            /\ svc'[j].wait_start = None
            /\ svc'[i] = svc[i]
            /\ UNCHANGED <<structs, cfg, strategy, admitted, handled>>

\* C24: the clone of a RateLimitService, whatever the state of the original
\* (asleep, holding a permit, waiting since some instant), has the original's
\* strategy object, fail_fast flag and deadline, and sleep = None,
\* permit_acquired = false, wait_start = None; taking the clone changes
\* neither the original's request state nor the strategy's state.
C24_CloneClean ==
    /\ [](\A i \in Threads :
            /\ C24_CloneOf(i).limiter = RateLimitService(i).limiter
            /\ C24_CloneOf(i).fail_fast = RateLimitService(i).fail_fast
            /\ C24_CloneOf(i).timeout = RateLimitService(i).timeout
            /\ C24_CloneOf(i).sleep = None
            /\ ~C24_CloneOf(i).permit_acquired
            /\ C24_CloneOf(i).wait_start = None)
    /\ [][C24_CloneStep]_vars

\* a task holds a fresh clone of a service that holds a permit and has been
\* waiting since some instant
C24_Witness ==
    \E i, j \in Threads :
        /\ task[j].st = "cloned"
        /\ svc[i].permit_acquired /\ svc[i].wait_start # None
        /\ svc[j] = RateLimitService_new

\* C22: at the outer boundary of ManagedThroughputLayer and
\* ManagedLatencyLayer the caller sees a ShotError of exactly one of the
\* four kinds: Elapsed has become Timeout, the Overloaded of the stack's
\* LoadShed layer has become Overloaded, a ShotError is what it was, and a
\* downstream error of another type has become Inner of its Display text.
C22_ErrorTaxonomy ==
    (profile = "boundary" /\ boundary.stage \in {"seen", "responded"}) =>
        /\ boundary.seen.type = "ShotError"
        /\ boundary.seen.kind \in {"Timeout", "Overloaded", "RateLimited", "Inner"}
        /\ boundary.err.type = "Elapsed" => boundary.seen = Timeout
        /\ boundary.origin = "load_shed" => boundary.seen = Overloaded
        /\ boundary.err.type = "ShotError" => boundary.seen = boundary.err
        /\ boundary.err.type = "Other" => boundary.seen = Inner(boundary.err.msg)

\* a downstream error whose text is that of a shed request has reached the
\* caller as Inner with that text
C22_Witness ==
    /\ profile = "boundary"
    /\ boundary.stage = "seen"
    /\ boundary.err.type = "Other"
    /\ boundary.seen = Inner("service overloaded")

\* the latest clock reading that a successful exchange of last_update_ns has
\* stored so far: all the time up to it has been credited as refill
TB_CreditedUntil ==
    LET stored == {log[k].now : k \in {j \in 1..Len(log) : log[j].res = "Admit"}}
                  \cup {now[t] : t \in {u \in Threads : pc[u] = "tb_store_units"}}
                  \cup {0}
    IN CHOOSE m \in stored : \A n \in stored : n <= m

\* thread t exchanges last_update_ns successfully in this step
TB_Credits(t) == pc[t] = "tb_cas_last_update" /\ pc'[t] = "tb_store_units"

\* C28: under any interleaving of concurrent TokenBucket::process() calls,
\* stale clock readings included, the intervals (last_update, now] credited
\* as refill by successful admissions are pairwise disjoint: an admission
\* that credits a non-empty interval starts it where all earlier credit ends.
C28_RefillCreditedOnce ==
    [][\A t \in Threads :
          TB_Credits(t) /\ now[t] > local[t].last_update
              => local[t].last_update >= TB_CreditedUntil]_vars

\* previous_count * (1 - time_into_current_window / period) + current_count
\* < capacity in exact arithmetic, both sides multiplied by the period
SW_ExactRoom(w, now_) ==
    w.previous_count * (w.period_ns - (now_ - w.current_window_start))
        + w.current_count * w.period_ns < w.capacity * w.period_ns

\* C29: SlidingWindow, sequential calls: whatever the counts and the clock
\* reading of the next call, process() answers Admit if and only if
\* previous_count * (1 - time_into_current_window / period) + current_count
\* < capacity holds in exact arithmetic for the counts the rotation step
\* leaves, an Admit raises current_count by exactly 1 and a Reject leaves it
\* as it is.
C29_DecisionRule ==
    (strategy = "SlidingWindow" /\ pc[1] = "idle" /\ callsLeft[1] > 0) =>
        \A r \in Readings :
            LET w == SW_Rotate(sw, r)
                p == SW_ProcessOnce(sw, r)
            IN /\ (p.res = "Admit") <=> SW_ExactRoom(w, r)
               /\ p.res = "Admit" => p.limiter.current_count = w.current_count + 1
               /\ p.res = "Reject" => p.limiter.current_count = w.current_count

\* the admitted calls of the history with a clock reading in [lo, hi)
AdmitsIn(lo, hi) == Admitted({k \in Calls : lo <= log[k].now /\ log[k].now < hi})

\* the start of the window a clock reading lies in
WindowOf(now_) == (now_ \div args.period) * args.period

\* the window the SlidingWindow stood in when the call before this one
\* returned, and the number of period boundaries from there to `now_`
SW_StoredWindow == IF log = << >> THEN 0 ELSE WindowOf(log[Len(log)].now)
SW_Crossed(now_) == (WindowOf(now_) - SW_StoredWindow) \div args.period

\* C30: SlidingWindow, sequential calls.  Between calls the stored window is
\* the one of the last call, current_count the admits of that window and
\* previous_count those of the window before it.  After the rotation step of
\* a call and before its admission step: with exactly one period boundary
\* crossed since the stored window, previous_count is the old current_count
\* and current_count is 0; with two or more crossed both counts are 0; with
\* none crossed the window start and both counts are what they were.
C30_Rotation ==
    (strategy = "SlidingWindow" /\ profile = "seq") =>
        LET old == SW_StoredWindow
            old_current == AdmitsIn(old, old + args.period)
            old_previous == AdmitsIn(old - args.period, old)
        IN /\ pc[1] = "idle" =>
                /\ sw.current_window_start = old
                /\ sw.current_count = old_current
                /\ sw.previous_count = old_previous
           /\ pc[1] = "sw_load_previous" =>
                /\ sw.current_window_start = WindowOf(now[1])
                /\ SW_Crossed(now[1]) = 1 =>
                     sw.previous_count = old_current /\ sw.current_count = 0
                /\ SW_Crossed(now[1]) >= 2 =>
                     sw.previous_count = 0 /\ sw.current_count = 0
                /\ SW_Crossed(now[1]) = 0 =>
                     /\ sw.current_window_start = old
                     /\ sw.previous_count = old_previous
                     /\ sw.current_count = old_current

\* a rotation over one boundary has moved a count that is not zero, and in
\* the same history a rotation had skipped a window
C30_Witness ==
    /\ strategy = "SlidingWindow" /\ profile = "seq"
    /\ pc[1] = "sw_load_previous"
    /\ SW_Crossed(now[1]) = 1
    /\ sw.previous_count >= 1 /\ sw.current_count = 0
    /\ \E k \in 2..Len(log) : WindowOf(log[k].now) - WindowOf(log[k - 1].now) >= 2 * args.period

\* thread w has won a rotation and has not yet stored all of its reset
FW_Resetting(w) == pc[w] = "fw_store_remaining"
SW_Resetting(w) == pc[w] \in {"sw_rotate_load_current", "sw_store_previous", "sw_store_current"}

\* thread t has loaded the boundary that a winner wrote and is about to read
\* or to change the counters
FW_Observed(t) ==
    /\ pc[t] \in {"fw_fetch_load", "fw_fetch_cas"}
    /\ local[t].expires = fw.expires
SW_Observed(t) ==
    /\ pc[t] \in {"sw_load_previous", "sw_load_current", "sw_fetch_add"}
    /\ local[t].window_start = sw.current_window_start

\* C27: in every interleaving of concurrent process() calls of a FixedWindow
\* or a SlidingWindow, a thread that has loaded the boundary written by a
\* rotation winner finds the winner's reset already stored: no thread reads
\* or decides on the counters, and none is admitted, between the winner's
\* exchange of the boundary and the last store of its reset.
C27_RotationVisible ==
    \A w \in Threads : \A t \in Threads \ {w} :
        /\ ~(strategy = "FixedWindow" /\ FW_Resetting(w) /\ FW_Observed(t))
        /\ ~(strategy = "SlidingWindow" /\ SW_Resetting(w) /\ SW_Observed(t))

\* whole seconds that cover a Duration
CeilSecs(d) == IF d.nanos > 0 THEN d.secs + 1 ELSE d.secs

\* The reference token bucket of a Gcra, its level counted in nanoseconds of
\* credit (one token is emission_interval_ns of them): full at
\* delay_tolerance_ns, one nanosecond of credit per nanosecond of time, one
\* token spent per Admit.  The level before and after the k-th call of the
\* history:
RECURSIVE TBRef_After(_)
TBRef_Before(k) ==
    IF k = 1 THEN gcra.delay_tolerance_ns
    ELSE Min(gcra.delay_tolerance_ns, TBRef_After(k - 1) + (log[k].now - log[k - 1].now))

TBRef_Admits(k) == TBRef_Before(k) >= gcra.emission_interval_ns

TBRef_After(k) ==
    IF TBRef_Admits(k) THEN TBRef_Before(k) - gcra.emission_interval_ns
                       ELSE TBRef_Before(k)

C26_RetryAfterHeader ==
    (profile = "boundary" /\ boundary.stage = "responded"
       /\ boundary.seen.kind = "RateLimited") =>
        /\ boundary.response.status = 429
        /\ boundary.response.retry_after = Max(1, CeilSecs(boundary.seen.retry_after))

\* C31: SlidingWindow, one caller: a Reject decided with previous_count = 0
\* carries retry_after = the time left until the current window ends; with
\* previous_count > 0 it carries more than
\* (estimate - capacity) * period / previous_count.
C31_RetryHint ==
    (profile = "seq" /\ strategy = "SlidingWindow" /\ pc[1] = "sw_load_current") =>
        \A e \in SW_Estimate(local[1].prev_count, sw.current_count, now[1],
                             local[1].window_start, sw.period_ns) :
            (e.kind = "count" /\ ~SW_HasRoom(e.est, sw.capacity)) =>
                LET retry_after_ns == SW_RetryAfter(e.est, sw.capacity, sw.period_ns)
                IN IF local[1].prev_count = 0
                     THEN retry_after_ns = local[1].window_start + sw.period_ns - now[1]
                     ELSE retry_after_ns * local[1].prev_count
                            > (e.est - sw.capacity) * sw.period_ns

\* the call that returns in this step, if one does
Returning == Len(log') = Len(log) + 1
Returned == log'[Len(log')]

\* C32: Gcra, concurrent callers, stale clock readings included: no step
\* lowers tat_ns; the step in which a call returns Admit replaces tat by
\* max(now, tat) + emission_interval, now being that call's reading; every
\* other step, the return of a Reject included, leaves tat as it is.
C32_TatStep ==
    /\ gcra'.tat >= gcra.tat
    /\ IF Returning /\ Returned.res = "Admit"
         THEN gcra'.tat = Max(Returned.now, gcra.tat) + gcra.emission_interval_ns
         ELSE gcra'.tat = gcra.tat

C32_TatMonotonic == [][C32_TatStep]_vars

\* a caller whose reading is older than that of a call already admitted is
\* admitted as well
C32_Witness ==
    /\ strategy = "Gcra"
    /\ Len(log) = 2
    /\ log[1].res = "Admit" /\ log[2].res = "Admit"
    /\ log[2].now < log[1].now
    /\ gcra.emission_interval_ns > 0
    /\ gcra.tat = log[1].now + 2 * gcra.emission_interval_ns

\* C33: TokenBucket, concurrent callers, every interleaving: the stored units
\* are a u64 amount between 0 and capacity_units.
C33_UnitsInRange ==
    /\ tb.units[1] >= 0
    /\ tb.units[2] \in 0..(UNITS_SCALE - 1)
    /\ ~U_Less(tb.capacity_units, tb.units)

\* both callers were admitted by a bucket of one token, the second after a
\* refill of more than the bucket holds
C33_Witness ==
    /\ strategy = "TokenBucket"
    /\ args.capacity = 1
    /\ Len(log) = 2
    /\ log[1].res = "Admit" /\ log[2].res = "Admit"
    /\ log[2].now > log[1].now
    /\ (log[2].now - log[1].now) * args.increment > args.period
    /\ tb.units = Units(0, 0)

\* the rejections a waiting service can be handed: the instance, the clock
\* reading of start.elapsed(), the wait_start it holds and the strategy's hint
Rejections ==
    {x \in Threads \X (0..MaxSvcTime) \X (0..MaxSvcTime) \X (0..MaxPeriod) : x[3] <= x[2]}

\* C34: RateLimitService in waiting mode with deadline D.  In every poll_ready
\* it can be given: process() is invoked only before wait_start + D; after a
\* Reject the service sleeps until min(retry_after, D - elapsed) from now (no
\* sleep for a hint of zero), and answers Timeout without a sleep when D has
\* elapsed; a poll that finds the sleep over and D elapsed answers Timeout
\* without asking the downstream handler or the strategy.  No stored sleep
\* ends after wait_start + D.
C34_DeadlineEnforced ==
    (profile = "svc" /\ cfg.timeout # None) =>
        /\ \A i \in Threads :
             svc[i].sleep # None =>
                /\ svc[i].wait_start # None
                /\ svc[i].sleep <= svc[i].wait_start + cfg.timeout
        /\ \A q \in NextPolls :
             LET s == svc[q[1]]
                 r == q[2]
                 start == IF s.wait_start = None THEN r ELSE s.wait_start
             IN /\ PollOf(q).strat # "none" => r < start + cfg.timeout
                /\ (PollOf(q).strat = "Reject" /\ ~cfg.fail_fast) =>
                     /\ PollOf(q).ret = "Pending"
                     /\ PollOf(q).svc.wait_start = start
                     /\ PollOf(q).slept <=> PollOf(q).strat_retry > 0
                     /\ PollOf(q).svc.sleep =
                          IF PollOf(q).slept
                            THEN r + Min(PollOf(q).strat_retry, cfg.timeout - (r - start))
                            ELSE None
                /\ (s.sleep # None /\ r >= s.sleep /\ r - s.wait_start >= cfg.timeout) =>
                     /\ PollOf(q).ret = "Timeout"
                     /\ PollOf(q).strat = "none"
                     /\ PollOf(q).limiter = fw
                     /\ PollOf(q).svc.sleep = None
        /\ \A x \in Rejections :
             LET s == [svc[x[1]] EXCEPT !.sleep = None, !.wait_start = x[3]]
                 z == RL_Sleep(s, fw, x[2], x[4])
                 left == cfg.timeout - (x[2] - x[3])
             IN IF left <= 0
                  THEN z.ret = "Timeout" /\ z.svc.sleep = None /\ ~z.slept
                  ELSE /\ z.ret = "Pending"
                       /\ z.svc.sleep = IF x[4] > 0 THEN x[2] + Min(x[4], left) ELSE None

\* a rejected request sleeps until its deadline, which comes before the time
\* the strategy's hint points to
C34_Witness ==
    /\ profile = "svc"
    /\ cfg.timeout # None
    /\ ~cfg.fail_fast
    /\ \E i \in Threads :
         /\ task[i].st = "polling"
         /\ svc[i].sleep = svc[i].wait_start + cfg.timeout
         /\ svc[i].sleep < fw.expires

\* the instances whose latest request has ended: handed to the downstream
\* handler by call(), or finished with Timeout or RateLimited
Ended ==
    {i \in Threads : \/ task[i].st = "executing"
                     \/ /\ task[i].st = "idle"
                        /\ out[i].kind \in {"Ok", "Timeout", "RateLimited"}}

\* C35: after a request on a RateLimitService instance has ended by call(),
\* by Timeout or by RateLimited, the instance holds no sleep, no permit and
\* no wait_start.
C35_HandleResets ==
    profile = "svc" =>
        \A i \in Ended :
            /\ svc[i].sleep = None
            /\ ~svc[i].permit_acquired
            /\ svc[i].wait_start = None

\* whether poll_ready at reading r gets as far as self.inner.poll_ready:
\* not while the sleep is pending, and not when the wake-up finds the
\* deadline passed
ReachesInner(s, r) ==
    \/ s.sleep = None
    \/ /\ r >= s.sleep
       /\ ~(cfg.timeout # None /\ s.wait_start # None /\ r - s.wait_start >= cfg.timeout)

\* C36: in every poll_ready a RateLimitService can be given, process() is
\* invoked only when the downstream handler answered Ready(Ok) in that poll;
\* when it answers Pending or an error, that is what poll_ready returns, the
\* strategy is left as it was and the instance holds no more permit than before.
C36_DownstreamFirst ==
    profile = "svc" =>
        \A q \in NextPolls :
            /\ PollOf(q).strat # "none" => (q[3] = "ready" /\ ReachesInner(svc[q[1]], q[2]))
            /\ q[3] # "ready" =>
                 /\ PollOf(q).limiter = fw
                 /\ PollOf(q).svc.permit_acquired = svc[q[1]].permit_acquired
                 /\ ReachesInner(svc[q[1]], q[2]) =>
                      PollOf(q).ret = (IF q[3] = "pending" THEN "Pending" ELSE "Inner")

\* a request waits because its downstream handler was not ready, while the
\* strategy has all its permits
C36_Witness ==
    /\ profile = "svc"
    /\ admitted = 0
    /\ fw.remaining = fw.capacity
    /\ \E i \in Threads :
         /\ task[i].st = "polling"
         /\ svc[i].sleep = None /\ svc[i].wait_start = None
         /\ ~svc[i].permit_acquired

\* task i waits with no sleep stored: its last poll was answered Pending on a
\* hint of zero, with the task woken at once
ZeroHinted(i) ==
    /\ task[i].st = "polling"
    /\ svc[i].sleep = None
    /\ svc[i].wait_start # None

C37_ZeroHint ==
    cfg.stack = "RateLimitService" =>
        \A q \in NextBarePolls :
            /\ (BarePollOf(q).strat = "Reject" /\ BarePollOf(q).strat_retry = 0) =>
                 /\ BarePollOf(q).ret = "Pending"
                 /\ ~BarePollOf(q).slept
                 /\ BarePollOf(q).svc.sleep = None
                 /\ ~BarePollOf(q).svc.permit_acquired
                 /\ BarePollOf(q).limiter = ProcessOnce(Limiter, q[2]).limiter
            /\ BarePollOf(q).ret = "Ready" => BarePollOf(q).svc.permit_acquired
            /\ (ZeroHinted(q[1]) /\ ProcessOnce(Limiter, q[2]).res = "Admit") =>
                 /\ BarePollOf(q).ret = "Ready"
                 /\ BarePollOf(q).limiter = ProcessOnce(Limiter, q[2]).limiter

C38_ClockArithmeticSafe ==
    strategy = "SlidingWindow" =>
        /\ \A t \in Threads :
             pc[t] = "sw_load_current" =>
                /\ local[t].window_start <= now[t]
                /\ now[t] < local[t].window_start + sw.period_ns
        /\ \A i \in Calls : log[i].res # "Panic"

C39_State ==
    strategy = "FixedWindow" =>
        /\ fw.expires > 0
        /\ fw.expires % fw.interval = 0
        /\ fw.remaining \in 0..fw.capacity

\* the step in which a thread's compare_exchange of expires succeeds
FW_Rotated ==
    \E t \in Threads : pc[t] = "fw_cas_expires" /\ pc'[t] = "fw_store_remaining"

C39_Step ==
    /\ FW_Rotated => fw'.expires > fw.expires
    /\ ~FW_Rotated => fw'.expires = fw.expires

\* C39: FixedWindow with interval > 0, concurrent callers, every
\* interleaving, stale clock readings included: expires is a positive
\* multiple of interval, 0 <= remaining <= capacity, a successful rotation
\* raises expires and no other step changes it.
C39_FixedWindowInvariant == []C39_State /\ [][C39_Step]_vars

\* a caller whose clock reading is older than another caller's has rotated
\* the window and is about to reset remaining
C39_Witness ==
    /\ strategy = "FixedWindow"
    /\ \E t \in Threads :
         /\ pc[t] = "fw_store_remaining"
         /\ now[t] < clock
         /\ fw.expires > fw.interval
         /\ fw.remaining < fw.capacity

====
